---- MODULE Spec2Model ----
(***************************************************************************)
(* Top-down arena shooter: the per-frame simulation core.                  *)
(*                                                                         *)
(* Conventions of the model                                                *)
(*   - Time is an integer number of units of 1/240 ms, so that every       *)
(*     delta, timer and spawn-interval product of the balance tables is an *)
(*     exact integer.  Ms(n) converts from milliseconds.                   *)
(*   - Fractions of the balance tables are kept as integers of the stated  *)
(*     scale (thousandths for spawn decay).                                *)
(*   - Positions are not tracked: which circles overlap after the movement *)
(*     phase of a tick is an input of that tick.  The geometric functions  *)
(*     are modelled on their own as operators on integer coordinates.      *)
(*   - The player's shoot timer is only ever compared with 0 and reduced   *)
(*     by dt; values below 0 are stored as 0.                              *)
(***************************************************************************)
EXTENDS Integers, Sequences, FiniteSets, TLC

VARIABLES
    state,          \* Game.state
    player,         \* Game.player (record of the Player fields)
    difficulty,     \* Game.difficulty / Game.bal / Player.bal / Spawner.bal
    spawner,        \* Game.spawner (spawnTimer, elapsedTime, lastBossDangerLevel)
    enemyCount,     \* Game.enemies.length where the enemies are only counted
    enemies,        \* Game.enemies
    bullets,        \* Game.bullets
    enemyBullets,   \* Game.enemyBullets
    pickups,        \* Game.pickups
    menuButtons,    \* Menu.buttons: the actions registered by the last render
    selectedDifficulty, \* Menu.selectedDifficulty
    upgradeChoices, \* Game.upgradeChoices
    saveData,       \* Game.saveData
    gameOvers,      \* calls of enterGameOver since the run started
    call,           \* the last operation applied and what it returned
    deathSignals,   \* calls of Audio.playDeath (takeDamage returning true)
                    \* since the player was last reset
    bossLog,        \* the danger levels Spawner.update computed since the
                    \* last reset, and the bosses it returned at each
    sinceKill,      \* the time Player.update calls have counted down since
                    \* the last Player.registerKill call (NoKillYet before
                    \* the first), followed in the combo specification
    sinceContact,   \* for each enemy, the time its Enemy.update calls have
                    \* counted down since its last contact hit (NoContactYet
                    \* before the first), followed in the contact
                    \* specification
    camera,         \* Game.camera (x, y) with the canvas size (w, h) that
                    \* Game passes to the camera and to the spawner,
                    \* followed in the placement specification
    lastTime        \* Game.lastTime, the timestamp of the previous frame,
                    \* followed in the clock specification

vars == <<state, player, difficulty, spawner, enemyCount, enemies, bullets,
          enemyBullets, pickups, menuButtons, selectedDifficulty,
          upgradeChoices, saveData, gameOvers, call, deathSignals,
          bossLog, sinceKill, sinceContact, camera, lastTime>>

\* everything but the player and the record of the last call
entityLists == <<enemies, bullets, enemyBullets, pickups>>

menuAndSave == <<menuButtons, selectedDifficulty, upgradeChoices, saveData,
                 gameOvers>>

restOfGame == <<state, difficulty, spawner, enemyCount, entityLists, menuAndSave,
                bossLog, sinceKill, sinceContact, camera, lastTime>>

----------------------------------------------------------------------------
(* Units and small helpers *)

Ms(n) == n * 240

Min(a, b) == IF a < b THEN a ELSE b

Max(a, b) == IF a > b THEN a ELSE b

\* the least and the greatest member of a non-empty set of integers
Least(S) == CHOOSE i \in S : \A j \in S : i <= j

Greatest(S) == CHOOSE i \in S : \A j \in S : i >= j

\* F(v) with v computed once: the result of one statement handed to the
\* statements that follow it
Then(v, F(_)) == CHOOSE r \in { F(x) : x \in {v} } : TRUE

MAX_DT == Ms(50)

DASH_DURATION == Ms(150)

DASH_INVULN == DASH_DURATION + Ms(100)

----------------------------------------------------------------------------
(* Bounds of the exploration *)

\* dt takes the values k * MAX_DT / DtSteps, k in 0..DtSteps
DtSteps == 2

DtSet == { (k * MAX_DT) \div DtSteps : k \in 0..DtSteps }

\* takeDamage is not applied any more once this many deaths were signalled
MaxDeathSignals == 2

\* xp is not raised beyond this
MaxXp == 70

----------------------------------------------------------------------------
(* Balance presets: Utils.ts EASY, NORMAL, HARD, NIGHTMARE *)

Difficulties == 0..3

EASY ==
    [ playerMaxHealth |-> 8, playerFireRate1000 |-> 4000,
      upgFireRatePerLevel1000 |-> 250,
      playerDashCooldown |-> Ms(2000), playerInvulnDuration |-> Ms(1500),
      upgMaxHealthPerLevel |-> 2,
      xpPerLevelBase |-> 3, xpPerLevelMult |-> 5,
      comboTimeout |-> Ms(3000), comboXpBonus100 |-> 35,
      baseSpawnInterval |-> Ms(3000), minSpawnInterval |-> Ms(600),
      spawnIntervalDecay1000 |-> 8, maxSpawnPerTick |-> 3,
      initialSpawnDelay |-> Ms(3000), maxEnemies |-> 120,
      bossInterval |-> 8, dangerPeriod |-> Ms(40000),
      spawnCountDivisor |-> Ms(60000),
      enemyContactCooldown |-> Ms(800),
      earlyPhaseEnd |-> Ms(50000), midPhaseEnd |-> Ms(120000),
      playerDamage10 |-> 15, upgDamagePerLevel100 |-> 35,
      enemyHpScale100 |-> 15, enemyHpMult10 |-> <<7, 8, 7, 6, 8, 8>>,
      rangedFireRate10 |-> 8,
      enemyDamageMult10 |-> <<10, 10, 10, 10, 10, 7>> ]

NORMAL ==
    [ playerMaxHealth |-> 5, playerFireRate1000 |-> 3000,
      upgFireRatePerLevel1000 |-> 200,
      playerDashCooldown |-> Ms(3000), playerInvulnDuration |-> Ms(1000),
      upgMaxHealthPerLevel |-> 1,
      xpPerLevelBase |-> 5, xpPerLevelMult |-> 8,
      comboTimeout |-> Ms(2000), comboXpBonus100 |-> 25,
      baseSpawnInterval |-> Ms(2000), minSpawnInterval |-> Ms(300),
      spawnIntervalDecay1000 |-> 15, maxSpawnPerTick |-> 5,
      initialSpawnDelay |-> Ms(2000), maxEnemies |-> 200,
      bossInterval |-> 5, dangerPeriod |-> Ms(30000),
      spawnCountDivisor |-> Ms(45000),
      enemyContactCooldown |-> Ms(500),
      earlyPhaseEnd |-> Ms(30000), midPhaseEnd |-> Ms(90000),
      playerDamage10 |-> 10, upgDamagePerLevel100 |-> 25,
      enemyHpScale100 |-> 30, enemyHpMult10 |-> <<10, 10, 10, 10, 10, 10>>,
      rangedFireRate10 |-> 15,
      enemyDamageMult10 |-> <<10, 10, 10, 10, 10, 10>> ]

HARD ==
    [ playerMaxHealth |-> 4, playerFireRate1000 |-> 2500,
      upgFireRatePerLevel1000 |-> 150,
      playerDashCooldown |-> Ms(3500), playerInvulnDuration |-> Ms(700),
      upgMaxHealthPerLevel |-> 1,
      xpPerLevelBase |-> 7, xpPerLevelMult |-> 10,
      comboTimeout |-> Ms(1500), comboXpBonus100 |-> 20,
      baseSpawnInterval |-> Ms(1500), minSpawnInterval |-> Ms(200),
      spawnIntervalDecay1000 |-> 20, maxSpawnPerTick |-> 6,
      initialSpawnDelay |-> Ms(1500), maxEnemies |-> 250,
      bossInterval |-> 4, dangerPeriod |-> Ms(25000),
      spawnCountDivisor |-> Ms(35000),
      enemyContactCooldown |-> Ms(350),
      earlyPhaseEnd |-> Ms(20000), midPhaseEnd |-> Ms(60000),
      playerDamage10 |-> 10, upgDamagePerLevel100 |-> 20,
      enemyHpScale100 |-> 40, enemyHpMult10 |-> <<13, 12, 13, 12, 12, 12>>,
      rangedFireRate10 |-> 22,
      enemyDamageMult10 |-> <<10, 10, 15, 15, 10, 15>> ]

NIGHTMARE ==
    [ playerMaxHealth |-> 3, playerFireRate1000 |-> 2000,
      upgFireRatePerLevel1000 |-> 120,
      playerDashCooldown |-> Ms(4500), playerInvulnDuration |-> Ms(400),
      upgMaxHealthPerLevel |-> 1,
      xpPerLevelBase |-> 10, xpPerLevelMult |-> 14,
      comboTimeout |-> Ms(1000), comboXpBonus100 |-> 10,
      baseSpawnInterval |-> Ms(1000), minSpawnInterval |-> Ms(120),
      spawnIntervalDecay1000 |-> 30, maxSpawnPerTick |-> 8,
      initialSpawnDelay |-> Ms(500), maxEnemies |-> 350,
      bossInterval |-> 3, dangerPeriod |-> Ms(20000),
      spawnCountDivisor |-> Ms(25000),
      enemyContactCooldown |-> Ms(200),
      earlyPhaseEnd |-> Ms(12000), midPhaseEnd |-> Ms(40000),
      playerDamage10 |-> 10, upgDamagePerLevel100 |-> 15,
      enemyHpScale100 |-> 50, enemyHpMult10 |-> <<15, 15, 16, 15, 14, 14>>,
      rangedFireRate10 |-> 30,
      enemyDamageMult10 |-> <<15, 15, 20, 20, 15, 20>> ]

DIFFICULTY_CONFIGS == <<EASY, NORMAL, HARD, NIGHTMARE>>

getBalanceConfig(d) == DIFFICULTY_CONFIGS[d + 1]

----------------------------------------------------------------------------
(* Utils.ts: upgrade table *)

UpgradeIds == 0..7

Damage == 0

FireRate == 1

MoveSpeed == 2

MaxHealth == 3

BulletSpeed == 4

SpreadShot == 5

Pierce == 6

DashCDR == 7

\* UPGRADES[i].maxLevel, indexed by upgrade id + 1
UPGRADES == <<5, 5, 5, 5, 5, 3, 3, 3>>

maxLevel(id) == UPGRADES[id + 1]

----------------------------------------------------------------------------
(* Player.ts *)

\* field initialisers and constructor, then Game's applyBalance(NORMAL)
PlayerNew ==
    [ health |-> 5, maxHealth |-> 5, alive |-> TRUE,
      isInvuln |-> FALSE, invulnTimer |-> 0,
      isDashing |-> FALSE, dashTimer |-> 0, dashCooldownTimer |-> 0,
      dashCooldown |-> Ms(3000), fireRate1000 |-> 3000, damage1000 |-> 1000,
      shootTimer |-> 0,
      xp |-> 0, level |-> 1, killCount |-> 0,
      upgradeLevels |-> [i \in UpgradeIds |-> 0],
      spreadLevel |-> 0, pierceLevel |-> 0,
      combo |-> [count |-> 0, timer |-> 0, multiplier100 |-> 100] ]

applyBalance(p, bal) ==
    [p EXCEPT !.maxHealth = bal.playerMaxHealth,
              !.health = bal.playerMaxHealth,
              !.fireRate1000 = bal.playerFireRate1000,
              !.damage1000 = bal.playerDamage10 * 100,
              !.dashCooldown = bal.playerDashCooldown]

xpToNextLevel(p, bal) == p.level * bal.xpPerLevelMult + bal.xpPerLevelBase

\* checkLevelUp levelling up as long as the threshold is met
RECURSIVE checkLevelUp_Cascade(_, _)
checkLevelUp_Cascade(p, bal) ==
    LET needed == xpToNextLevel(p, bal)
    IN  IF p.xp >= needed
        THEN [p |-> checkLevelUp_Cascade(
                        [p EXCEPT !.xp = p.xp - needed, !.level = p.level + 1],
                        bal).p,
              ret |-> TRUE]
        ELSE [p |-> p, ret |-> FALSE]

\* returns the player after the call and the call's return value
checkLevelUp(p, bal) ==
    LET needed == xpToNextLevel(p, bal)
    IN  IF p.xp >= needed
        THEN [p |-> [p EXCEPT !.xp = p.xp - needed, !.level = p.level + 1],
              ret |-> TRUE]
        ELSE [p |-> p, ret |-> FALSE]

\* 0.75^lvl of the base cooldown, lvl in 0..3
DashCooldownAt(bal, lvl) ==
    CASE lvl = 0 -> bal.playerDashCooldown
      [] lvl = 1 -> (bal.playerDashCooldown * 3) \div 4
      [] lvl = 2 -> (bal.playerDashCooldown * 9) \div 16
      [] OTHER   -> (bal.playerDashCooldown * 27) \div 64

applyUpgrade(p, id, bal) ==
    LET lvl == p.upgradeLevels[id] + 1
        q   == [p EXCEPT !.upgradeLevels[id] = lvl]
    IN  CASE id = Damage ->
               [q EXCEPT !.damage1000 =
                   bal.playerDamage10 * (100 + lvl * bal.upgDamagePerLevel100)]
          [] id = FireRate ->
               [q EXCEPT !.fireRate1000 =
                   (bal.playerFireRate1000
                      * (1000 + lvl * bal.upgFireRatePerLevel1000)) \div 1000]
          [] id = MaxHealth ->
               [q EXCEPT !.maxHealth =
                             bal.playerMaxHealth + lvl * bal.upgMaxHealthPerLevel,
                         !.health =
                             bal.playerMaxHealth + lvl * bal.upgMaxHealthPerLevel]
          [] id = SpreadShot -> [q EXCEPT !.spreadLevel = lvl]
          [] id = Pierce -> [q EXCEPT !.pierceLevel = lvl]
          [] id = DashCDR -> [q EXCEPT !.dashCooldown = DashCooldownAt(bal, lvl)]
          [] OTHER -> q

\* the combo timer of Player.update running out without the count and the
\* multiplier being reset
UpdateCombo_KeepsCount(p, dt) ==
    IF p.combo.timer > 0
    THEN [p EXCEPT !.combo.timer = p.combo.timer - dt]
    ELSE p

\* Player.update lines 198-205
UpdateCombo(p, dt) ==
    IF p.combo.timer > 0
    THEN LET t == p.combo.timer - dt
         IN  IF t <= 0
             THEN [p EXCEPT !.combo = [count |-> 0, timer |-> t,
                                       multiplier100 |-> 100]]
             ELSE [p EXCEPT !.combo.timer = t]
    ELSE p

\* Player.update lines 210-219
UpdateTimers(p, dt) ==
    LET q == IF p.invulnTimer > 0
             THEN [p EXCEPT !.invulnTimer = p.invulnTimer - dt,
                            !.isInvuln = (p.invulnTimer - dt > 0)]
             ELSE p
    IN  IF q.dashCooldownTimer > 0
        THEN [q EXCEPT !.dashCooldownTimer = q.dashCooldownTimer - dt]
        ELSE q

\* the dash trigger of Player.update without the invulnerability window
DashTrigger_NoInvuln(p, dashWanted) ==
    IF dashWanted /\ p.dashCooldownTimer <= 0 /\ ~p.isDashing
    THEN [p EXCEPT !.isDashing = TRUE,
                   !.dashTimer = DASH_DURATION,
                   !.dashCooldownTimer = p.dashCooldown]
    ELSE p

\* Player.update lines 262-286
DashTrigger(p, dashWanted) ==
    IF dashWanted /\ p.dashCooldownTimer <= 0 /\ ~p.isDashing
    THEN [p EXCEPT !.isDashing = TRUE,
                   !.dashTimer = DASH_DURATION,
                   !.dashCooldownTimer = p.dashCooldown,
                   !.invulnTimer = DASH_INVULN,
                   !.isInvuln = TRUE]
    ELSE p

\* Player.update lines 288-307; fired is the number of bullets created
Shoot(p, dt, wantsShoot) ==
    LET t == Max(p.shootTimer - dt, 0)
    IN  IF wantsShoot /\ t <= 0
        THEN [p |-> [p EXCEPT !.shootTimer = Ms(1000000) \div p.fireRate1000],
              fired |-> 1 + p.spreadLevel * 2]
        ELSE [p |-> [p EXCEPT !.shootTimer = t], fired |-> 0]

\* Player.update; in = [dash |-> dashWanted, shoot |-> wantsShoot]
PlayerUpdate(p, dt, in) ==
    Then(UpdateCombo(p, dt), LAMBDA p0 :
    Then(UpdateTimers(p0, dt), LAMBDA p1 :
    Then(IF p1.isDashing
         THEN [p1 EXCEPT !.dashTimer = p1.dashTimer - dt,
                         !.isDashing = ~(p1.dashTimer - dt <= 0)]
         ELSE p1, LAMBDA p2 :
    IF p2.isDashing
    THEN [p |-> p2, fired |-> 0]
    ELSE Then(DashTrigger(p2, in.dash), LAMBDA p3 : Shoot(p3, dt, in.shoot)))))

registerKill(p, bal) ==
    [p EXCEPT !.combo = [count |-> p.combo.count + 1,
                         timer |-> bal.comboTimeout,
                         multiplier100 |-> 100 + p.combo.count * bal.comboXpBonus100]]

\* takeDamage without the invulnerability guard
takeDamage_NoInvulnGuard(p, amount, bal) ==
    LET h == p.health - amount
        q == [p EXCEPT !.health = h,
                       !.invulnTimer = bal.playerInvulnDuration,
                       !.isInvuln = TRUE]
    IN  IF h <= 0
        THEN [p |-> [q EXCEPT !.health = 0, !.alive = FALSE], ret |-> TRUE]
        ELSE [p |-> q, ret |-> FALSE]

\* takeDamage that opens no invulnerability window
takeDamage_NoWindow(p, amount, bal) ==
    IF p.isInvuln
    THEN [p |-> p, ret |-> FALSE]
    ELSE LET h == p.health - amount
         IN  IF h <= 0
             THEN [p |-> [p EXCEPT !.health = 0, !.alive = FALSE], ret |-> TRUE]
             ELSE [p |-> [p EXCEPT !.health = h], ret |-> FALSE]

takeDamage(p, amount, bal) ==
    IF p.isInvuln
    THEN [p |-> p, ret |-> FALSE]
    ELSE LET h == p.health - amount
             q == [p EXCEPT !.health = h,
                            !.invulnTimer = bal.playerInvulnDuration,
                            !.isInvuln = TRUE]
         IN  IF h <= 0
             THEN [p |-> [q EXCEPT !.health = 0, !.alive = FALSE], ret |-> TRUE]
             ELSE [p |-> q, ret |-> FALSE]

heal(p, amount) ==
    [p EXCEPT !.health = Min(p.health + amount, p.maxHealth)]

\* a reset that leaves the upgrade levels and what they gave in place
reset_KeepsUpgrades(p, bal) ==
    [ health |-> bal.playerMaxHealth, maxHealth |-> bal.playerMaxHealth,
      alive |-> TRUE, isInvuln |-> FALSE, invulnTimer |-> 0,
      isDashing |-> FALSE, dashTimer |-> 0, dashCooldownTimer |-> 0,
      dashCooldown |-> bal.playerDashCooldown,
      fireRate1000 |-> bal.playerFireRate1000,
      damage1000 |-> bal.playerDamage10 * 100, shootTimer |-> 0,
      xp |-> 0, level |-> 1, killCount |-> 0,
      upgradeLevels |-> p.upgradeLevels,
      spreadLevel |-> p.spreadLevel, pierceLevel |-> p.pierceLevel,
      combo |-> [count |-> 0, timer |-> 0, multiplier100 |-> 100] ]

reset(p, bal) ==
    [ health |-> bal.playerMaxHealth, maxHealth |-> bal.playerMaxHealth,
      alive |-> TRUE, isInvuln |-> FALSE, invulnTimer |-> 0,
      isDashing |-> FALSE, dashTimer |-> 0, dashCooldownTimer |-> 0,
      dashCooldown |-> bal.playerDashCooldown,
      fireRate1000 |-> bal.playerFireRate1000,
      damage1000 |-> bal.playerDamage10 * 100, shootTimer |-> 0,
      xp |-> 0, level |-> 1, killCount |-> 0,
      upgradeLevels |-> [i \in DOMAIN p.upgradeLevels |-> 0],
      spreadLevel |-> 0, pierceLevel |-> 0,
      combo |-> [count |-> 0, timer |-> 0, multiplier100 |-> 100] ]

----------------------------------------------------------------------------
(* Enemy.ts: per-type base configuration and contact damage *)

Basic == 0

Fast == 1

Tank == 2

Boss == 3

Ranged == 4

Exploder == 5

EnemyTypes == 0..5

\* ENEMY_CONFIGS[type].damage, indexed by type + 1
ENEMY_CONFIGS_damage == <<1, 1, 2, 3, 1, 3>>

CeilDiv(a, b) == (a + b - 1) \div b

\* Enemy constructor: Math.ceil(cfg.damage * bal.enemyDamageMult[typeIdx]);
\* a Ranged enemy's bullet carries the same amount
EnemyDamage(bal, type) ==
    CeilDiv(ENEMY_CONFIGS_damage[type + 1] * bal.enemyDamageMult10[type + 1], 10)

\* ENEMY_CONFIGS[type].hp and .xpValue, indexed by type + 1
ENEMY_CONFIGS_hp == <<3, 1, 10, 50, 4, 2>>

ENEMY_CONFIGS_xpValue == <<1, 1, 3, 15, 2, 2>>

\* Enemy constructor: Math.ceil(cfg.hp * enemyHpMult * (1 + scale * enemyHpScale))
\* with scale = elapsedTime / 60, in thousandths of a hit point.  The elapsed
\* time enters in units of 1/240 s and the scale factor in twentieths.
EnemyHp1000(bal, type, elapsedTime) ==
    1000 * CeilDiv(ENEMY_CONFIGS_hp[type + 1] * bal.enemyHpMult10[type + 1]
                     * (288000 + (elapsedTime \div 1000)
                                   * (bal.enemyHpScale100 \div 5)),
                   2880000)

\* 1 / rangedFireRate
RangedShootPeriod(bal) == Ms(10000) \div bal.rangedFireRate10

\* new Enemy(x, y, type, elapsedTime / 60, bal)
EnemyNew(type, elapsedTime, bal) ==
    [ type |-> type, hp1000 |-> EnemyHp1000(bal, type, elapsedTime),
      alive |-> TRUE, contactCooldown |-> 0,
      shootTimer |-> IF type = Ranged THEN RangedShootPeriod(bal) ELSE 0 ]

\* Enemy.update: inRange says whether the player is closer than 500 after the
\* move; fired says whether a bullet is returned
EnemyUpdate(e, dt, inRange, bal) ==
    LET t  == e.shootTimer - dt
        e1 == IF e.type = Ranged
              THEN [e EXCEPT !.shootTimer =
                        IF t <= 0 /\ inRange THEN RangedShootPeriod(bal) ELSE t]
              ELSE e
    IN  [ e |-> IF e1.contactCooldown > 0
                THEN [e1 EXCEPT !.contactCooldown = e1.contactCooldown - dt]
                ELSE e1,
          fired |-> e.type = Ranged /\ t <= 0 /\ inRange ]

\* Enemy.takeDamage
\* an enemy that reports its death without being marked not alive
EnemyTakeDamage_StaysAlive(e, amount1000) ==
    [e |-> [e EXCEPT !.hp1000 = @ - amount1000],
     ret |-> e.hp1000 - amount1000 <= 0]

EnemyTakeDamage(e, amount1000) ==
    LET h == e.hp1000 - amount1000
    IN  IF h <= 0
        THEN [e |-> [e EXCEPT !.hp1000 = h, !.alive = FALSE], ret |-> TRUE]
        ELSE [e |-> [e EXCEPT !.hp1000 = h], ret |-> FALSE]

\* Pickup.ts
XP == 0

Health == 1

PICKUP_LIFETIME == Ms(30000)

PickupNew(type, value) ==
    [type |-> type, value |-> value, alive |-> TRUE, lifetime |-> PICKUP_LIFETIME]

\* Pickup.update
PickupUpdate(k, dt) ==
    [k EXCEPT !.lifetime = k.lifetime - dt,
              !.alive = IF k.lifetime - dt <= 0 THEN FALSE ELSE k.alive]

\* new Bullet(..., damage, pierce) of the player, and of a Ranged enemy
BulletNew(p) == [alive |-> TRUE, pierceLeft |-> p.pierceLevel, damage1000 |-> p.damage1000]

EnemyBulletNew(bal) == [alive |-> TRUE, damage |-> EnemyDamage(bal, Ranged)]

\* Utils.ts arena size, Menu.ts out-of-bounds buffer of a bullet
ARENA_WIDTH == 3000

ARENA_HEIGHT == 2000

BULLET_OOB_BUFFER == 50

\* Bullet.update lines 1154-1159 with the arena alone as the bound
OutOfArena_NoBuffer(x, y) ==
    \/ x < 0
    \/ x > ARENA_WIDTH
    \/ y < 0
    \/ y > ARENA_HEIGHT

\* Bullet.update lines 1154-1159: the test on the position after the move
OutOfArena(x, y) ==
    \/ x < -BULLET_OOB_BUFFER
    \/ x > ARENA_WIDTH + BULLET_OOB_BUFFER
    \/ y < -BULLET_OOB_BUFFER
    \/ y > ARENA_HEIGHT + BULLET_OOB_BUFFER

\* Bullet.update: the bullet dies when the move took it out of the arena
BulletUpdate(b, leftArena) == IF leftArena THEN [b EXCEPT !.alive = FALSE] ELSE b

----------------------------------------------------------------------------
(* Menu.ts: Collision.checkAll.  The collision state st carries the player, *)
(* the four entity lists and the CollisionResult under construction; ov    *)
(* says which circles overlap:                                             *)
(*   ov.bulletHits[b]   the grid candidates bullet b overlaps, in query    *)
(*                      order (indices into enemies)                       *)
(*   ov.enemyBulletHits the enemy bullets overlapping the player           *)
(*   ov.contacts        the grid candidates overlapping the player, in     *)
(*                      query order                                        *)
(*   ov.blasts          the enemies whose explode radius reaches the player*)
(*   ov.pickupHits      the pickups within the collection radius           *)
(* st.enemyHitPositions is the result's list of the same name: one entry   *)
(* per hit of a bullet on an enemy, kept as the bullet and the enemy.      *)

\* check 1 where the pierce counter is taken down on every hit
RECURSIVE BulletVsEnemies_PierceBelowZero(_, _, _)
BulletVsEnemies_PierceBelowZero(st, b, hits) ==
    IF hits = <<>>
    THEN st
    ELSE LET e == Head(hits)
         IN  IF ~st.enemies[e].alive
             THEN BulletVsEnemies_PierceBelowZero(st, b, Tail(hits))
             ELSE Then(EnemyTakeDamage(st.enemies[e], st.bullets[b].damage1000),
                       LAMBDA r :
                  Then([st EXCEPT
                          !.enemies[e] = r.e,
                          !.enemyHitPositions =
                              Append(@, [bullet |-> b, enemy |-> e]),
                          !.enemiesKilled = IF r.ret THEN Append(@, e) ELSE @,
                          !.exploderDeaths =
                              IF r.ret /\ st.enemies[e].type = Exploder
                              THEN Append(@, e) ELSE @,
                          !.player.killCount = IF r.ret THEN @ + 1 ELSE @,
                          !.bullets[b] =
                              [@ EXCEPT !.pierceLeft = @ - 1,
                                        !.alive = st.bullets[b].pierceLeft > 0]],
                       LAMBDA st1 :
                  IF st1.bullets[b].alive
                  THEN BulletVsEnemies_PierceBelowZero(st1, b, Tail(hits))
                  ELSE st1))

\* check 1 where the bullet is destroyed by the hit that spends its last
\* pierce
RECURSIVE BulletVsEnemies_StopsWhenPierceSpent(_, _, _)
BulletVsEnemies_StopsWhenPierceSpent(st, b, hits) ==
    IF hits = <<>>
    THEN st
    ELSE LET e == Head(hits)
         IN  IF ~st.enemies[e].alive
             THEN BulletVsEnemies_StopsWhenPierceSpent(st, b, Tail(hits))
             ELSE Then(EnemyTakeDamage(st.enemies[e], st.bullets[b].damage1000),
                       LAMBDA r :
                  Then([st EXCEPT
                          !.enemies[e] = r.e,
                          !.enemyHitPositions =
                              Append(@, [bullet |-> b, enemy |-> e]),
                          !.enemiesKilled = IF r.ret THEN Append(@, e) ELSE @,
                          !.exploderDeaths =
                              IF r.ret /\ st.enemies[e].type = Exploder
                              THEN Append(@, e) ELSE @,
                          !.player.killCount = IF r.ret THEN @ + 1 ELSE @,
                          !.bullets[b] =
                              IF @.pierceLeft > 1
                              THEN [@ EXCEPT !.pierceLeft = @ - 1]
                              ELSE [@ EXCEPT !.pierceLeft = 0,
                                             !.alive = FALSE]],
                       LAMBDA st1 :
                  IF st1.bullets[b].alive
                  THEN BulletVsEnemies_StopsWhenPierceSpent(st1, b, Tail(hits))
                  ELSE st1))

\* check 1, one bullet against the remaining candidates it overlaps
RECURSIVE BulletVsEnemies(_, _, _)
BulletVsEnemies(st, b, hits) ==
    IF hits = <<>>
    THEN st
    ELSE LET e == Head(hits)
         IN  IF ~st.enemies[e].alive
             THEN BulletVsEnemies(st, b, Tail(hits))
             ELSE Then(EnemyTakeDamage(st.enemies[e], st.bullets[b].damage1000),
                       LAMBDA r :
                  Then([st EXCEPT
                          !.enemies[e] = r.e,
                          !.enemyHitPositions =
                              Append(@, [bullet |-> b, enemy |-> e]),
                          !.enemiesKilled = IF r.ret THEN Append(@, e) ELSE @,
                          !.exploderDeaths =
                              IF r.ret /\ st.enemies[e].type = Exploder
                              THEN Append(@, e) ELSE @,
                          !.player.killCount = IF r.ret THEN @ + 1 ELSE @,
                          !.bullets[b] =
                              IF @.pierceLeft > 0
                              THEN [@ EXCEPT !.pierceLeft = @ - 1]
                              ELSE [@ EXCEPT !.alive = FALSE]],
                       LAMBDA st1 :
                  IF st1.bullets[b].alive
                  THEN BulletVsEnemies(st1, b, Tail(hits))
                  ELSE st1))

\* check 1, bullets b..Len(bullets): the loop goes on with the next alive
\* bullet that overlaps a candidate, the others leave st as it is
RECURSIVE BulletsVsEnemies(_, _, _)
BulletsVsEnemies(st, b, ov) ==
    Then({ i \in b..Len(st.bullets) :
             st.bullets[i].alive /\ ov.bulletHits[i] # <<>> },
         LAMBDA busy :
    IF busy = {}
    THEN st
    ELSE Then(Least(busy), LAMBDA i :
         Then(BulletVsEnemies(st, i, ov.bulletHits[i]),
              LAMBDA st1 : BulletsVsEnemies(st1, i + 1, ov))))

\* one call of player.takeDamage inside checkAll
HitPlayer(st, amount, bal) ==
    Then(takeDamage(st.player, amount, bal),
         LAMBDA r : [st EXCEPT !.player = r.p,
                               !.playerHit = TRUE,
                               !.died = r.ret,
                               !.deaths = IF r.ret THEN @ + 1 ELSE @])

\* check 2, enemy bullets b..Len(enemyBullets): the loop goes on with the
\* next alive bullet that overlaps the player
RECURSIVE EnemyBulletsVsPlayer(_, _, _, _)
EnemyBulletsVsPlayer(st, b, ov, bal) ==
    Then({ i \in b..Len(st.enemyBullets) :
             st.enemyBullets[i].alive /\ i \in ov.enemyBulletHits },
         LAMBDA busy :
    IF busy = {}
    THEN st
    ELSE Then(Least(busy), LAMBDA i :
         Then([HitPlayer(st, st.enemyBullets[i].damage, bal)
                  EXCEPT !.enemyBullets[i].alive = FALSE],
              LAMBDA st1 : EnemyBulletsVsPlayer(st1, i + 1, ov, bal))))

\* check 3 without the canDealContactDamage test
RECURSIVE EnemiesVsPlayer_NoCooldownTest(_, _, _)
EnemiesVsPlayer_NoCooldownTest(st, near, bal) ==
    IF near = <<>>
    THEN st
    ELSE LET e == Head(near)
         IN  IF ~st.enemies[e].alive
             THEN EnemiesVsPlayer_NoCooldownTest(st, Tail(near), bal)
             ELSE Then([HitPlayer(st, EnemyDamage(bal, st.enemies[e].type), bal)
                          EXCEPT !.enemies[e].contactCooldown =
                                     bal.enemyContactCooldown],
                       LAMBDA st1 :
                          IF st1.died THEN st1
                          ELSE EnemiesVsPlayer_NoCooldownTest(st1, Tail(near),
                                                              bal))

\* check 3, the remaining candidates near the player
RECURSIVE EnemiesVsPlayer(_, _, _)
EnemiesVsPlayer(st, near, bal) ==
    IF near = <<>>
    THEN st
    ELSE LET e == Head(near)
         IN  IF ~st.enemies[e].alive \/ ~(st.enemies[e].contactCooldown <= 0)
             THEN EnemiesVsPlayer(st, Tail(near), bal)
             ELSE Then([HitPlayer(st, EnemyDamage(bal, st.enemies[e].type), bal)
                          EXCEPT !.enemies[e].contactCooldown =
                                     bal.enemyContactCooldown],
                       LAMBDA st1 :
                          IF st1.died THEN st1
                          ELSE EnemiesVsPlayer(st1, Tail(near), bal))

\* check 4, exploder deaths i..Len(exploderDeaths)
RECURSIVE ExplodersVsPlayer(_, _, _, _)
ExplodersVsPlayer(st, i, ov, bal) ==
    IF i > Len(st.exploderDeaths)
    THEN st
    ELSE Then(IF st.exploderDeaths[i] \in ov.blasts
              THEN HitPlayer(st, EnemyDamage(bal, Exploder), bal)
              ELSE st,
              LAMBDA st1 : ExplodersVsPlayer(st1, i + 1, ov, bal))

\* check 5 where the resolver itself credits the xp of a collected pickup
\* to the player
RECURSIVE PickupsVsPlayer_CreditsXp(_, _, _)
PickupsVsPlayer_CreditsXp(st, k, ov) ==
    Then({ i \in k..Len(st.pickups) :
             st.pickups[i].alive /\ i \in ov.pickupHits },
         LAMBDA busy :
    IF busy = {}
    THEN st
    ELSE Then(Least(busy), LAMBDA i :
         Then([st EXCEPT
                 !.pickups[i].alive = FALSE,
                 !.player.xp = IF st.pickups[i].type = XP
                               THEN @ + st.pickups[i].value ELSE @,
                 !.xpGained = IF st.pickups[i].type = XP
                              THEN @ + st.pickups[i].value ELSE @,
                 !.healthGained = IF st.pickups[i].type = Health
                                  THEN @ + st.pickups[i].value ELSE @],
              LAMBDA st1 : PickupsVsPlayer_CreditsXp(st1, i + 1, ov))))

\* check 5, pickups k..Len(pickups): the loop goes on with the next alive
\* pickup that overlaps the player
RECURSIVE PickupsVsPlayer(_, _, _)
PickupsVsPlayer(st, k, ov) ==
    Then({ i \in k..Len(st.pickups) :
             st.pickups[i].alive /\ i \in ov.pickupHits },
         LAMBDA busy :
    IF busy = {}
    THEN st
    ELSE Then(Least(busy), LAMBDA i :
         Then([st EXCEPT
                 !.pickups[i].alive = FALSE,
                 !.xpGained = IF st.pickups[i].type = XP
                              THEN @ + st.pickups[i].value ELSE @,
                 !.healthGained = IF st.pickups[i].type = Health
                                  THEN @ + st.pickups[i].value ELSE @],
              LAMBDA st1 : PickupsVsPlayer(st1, i + 1, ov))))

\* Collision.checkAll where only a living player collects pickups
checkAll_PickupsNeedAlivePlayer(player_, enemies_, bullets_, enemyBullets_, pickups_, ov, bal) ==
    Then([ player |-> player_, enemies |-> enemies_, bullets |-> bullets_,
           enemyBullets |-> enemyBullets_, pickups |-> pickups_,
           playerHit |-> FALSE, enemiesKilled |-> <<>>,
           enemyHitPositions |-> <<>>,
           xpGained |-> 0, healthGained |-> 0, exploderDeaths |-> <<>>,
           died |-> FALSE, deaths |-> 0 ],
         LAMBDA st0 :
    Then(BulletsVsEnemies(st0, 1, ov), LAMBDA st1 :
    Then(IF st1.player.alive /\ ~st1.player.isInvuln
         THEN EnemyBulletsVsPlayer(st1, 1, ov, bal)
         ELSE st1, LAMBDA st2 :
    Then(IF st2.player.alive
         THEN EnemiesVsPlayer(st2, ov.contacts, bal)
         ELSE st2, LAMBDA st3 :
    Then(IF st3.player.alive /\ Len(st3.exploderDeaths) > 0
         THEN ExplodersVsPlayer(st3, 1, ov, bal)
         ELSE st3, LAMBDA st4 :
    IF st4.player.alive THEN PickupsVsPlayer(st4, 1, ov) ELSE st4)))))

\* Collision.checkAll
checkAll(player_, enemies_, bullets_, enemyBullets_, pickups_, ov, bal) ==
    Then([ player |-> player_, enemies |-> enemies_, bullets |-> bullets_,
           enemyBullets |-> enemyBullets_, pickups |-> pickups_,
           playerHit |-> FALSE, enemiesKilled |-> <<>>,
           enemyHitPositions |-> <<>>,
           xpGained |-> 0, healthGained |-> 0, exploderDeaths |-> <<>>,
           died |-> FALSE, deaths |-> 0 ],
         LAMBDA st0 :
    Then(BulletsVsEnemies(st0, 1, ov), LAMBDA st1 :
    Then(IF st1.player.alive /\ ~st1.player.isInvuln
         THEN EnemyBulletsVsPlayer(st1, 1, ov, bal)
         ELSE st1, LAMBDA st2 :
    Then(IF st2.player.alive
         THEN EnemiesVsPlayer(st2, ov.contacts, bal)
         ELSE st2, LAMBDA st3 :
    Then(IF st3.player.alive /\ Len(st3.exploderDeaths) > 0
         THEN ExplodersVsPlayer(st3, 1, ov, bal)
         ELSE st3, LAMBDA st4 :
    PickupsVsPlayer(st4, 1, ov))))))

\* the amounts Collision.checkAll passes to Player.takeDamage
DamageAmounts(bal) == { EnemyDamage(bal, t) : t \in EnemyTypes }

----------------------------------------------------------------------------
(* Specification of the Player object on its own: any sequence of          *)
(* takeDamage and update calls on a player of any difficulty.              *)

NoCall == [op |-> "none", ret |-> FALSE]

\* the canvas takes the size of the window; this is the size of a common one
DefaultCanvas == [w |-> 1280, h |-> 720]

\* Game constructor line 146: the camera starts on the centre of the arena
CameraNew == [x |-> ARENA_WIDTH \div 2, y |-> ARENA_HEIGHT \div 2,
              w |-> DefaultCanvas.w, h |-> DefaultCanvas.h]

SpawnerNew == [spawnTimer |-> 0, elapsedTime |-> 0, lastBossDangerLevel |-> 0]

PlayerInputs == [dash : BOOLEAN, shoot : {FALSE}]

\* the Game fields a specification of one object leaves alone
InitRest ==
    /\ enemies = <<>>
    /\ bullets = <<>>
    /\ enemyBullets = <<>>
    /\ pickups = <<>>
    /\ menuButtons = {"diff_0", "diff_1", "diff_2", "diff_3", "start", "howtoplay"}
    /\ selectedDifficulty = difficulty
    /\ upgradeChoices = <<>>
    /\ saveData = [bestTime |-> 0, bestKills |-> 0, bestLevel |-> 0]
    /\ gameOvers = 0

\* no Player.registerKill call yet
NoKillYet == -1

\* no Spawner.update call yet
NoBossLog == [seen |-> {}, bosses |-> [L \in 1..10 |-> 0]]

InitPlayer ==
    /\ state = "Playing"
    /\ difficulty \in Difficulties
    /\ player = reset(applyBalance(PlayerNew, getBalanceConfig(difficulty)),
                      getBalanceConfig(difficulty))
    /\ spawner = SpawnerNew
    /\ enemyCount = 0
    /\ InitRest
    /\ call = NoCall
    /\ deathSignals = 0
    /\ bossLog = NoBossLog
    /\ sinceKill = NoKillYet
    /\ sinceContact = <<>>
    /\ camera = CameraNew
    /\ lastTime = 0

P_TakeDamage ==
    /\ deathSignals < MaxDeathSignals
    /\ \E amount \in DamageAmounts(getBalanceConfig(difficulty)) :
         LET r == takeDamage(player, amount, getBalanceConfig(difficulty))
         IN  /\ player' = r.p
             /\ call' = [op |-> "takeDamage", ret |-> r.ret]
             /\ deathSignals' = IF r.ret THEN deathSignals + 1 ELSE deathSignals
    /\ UNCHANGED restOfGame

P_Update ==
    /\ \E dt \in DtSet, in \in PlayerInputs :
         /\ player' = PlayerUpdate(player, dt, in).p
         /\ call' = [op |-> "update", ret |-> FALSE]
    /\ UNCHANGED <<restOfGame, deathSignals>>

NextPlayer == P_TakeDamage \/ P_Update

SpecPlayer == InitPlayer /\ [][NextPlayer]_vars

Bal == getBalanceConfig(difficulty)

\* C1 (as claimed): for every sequence of takeDamage calls health never goes
\* below 0 and the player dies exactly once: alive is false exactly when
\* health is 0, and a death is signalled once, in the call that brought
\* health to 0, never again by a later call.
C1_SingleDeath ==
    /\ player.health >= 0
    /\ player.alive <=> player.health > 0
    /\ deathSignals = IF player.alive THEN 0 ELSE 1

\* the part of C1 the code does keep: health is never negative and alive,
\* once false, stays false
C1_HealthNeverNegative ==
    [][player'.health >= 0 /\ (~player.alive => ~player'.alive)]_vars

\* C2: takeDamage called while the player is invulnerable changes nothing of
\* the player: health, alive, invulnTimer and isInvuln keep their values.
C2_InvulnNoOp ==
    [][(call'.op = "takeDamage" /\ player.isInvuln) => player' = player]_vars

\* a takeDamage call has just been made inside a running invulnerability
\* window (the timer is part-way down, so the window was not restarted)
C2_Witness ==
    /\ call.op = "takeDamage"
    /\ player.isInvuln
    /\ player.alive
    /\ player.health < player.maxHealth
    /\ player.invulnTimer > 0
    /\ player.invulnTimer < Bal.playerInvulnDuration - MAX_DT

----------------------------------------------------------------------------
(* Specification of levelling: a fresh player of any difficulty gains xp   *)
(* (Game.updatePlaying lines 386 and 413) and checkLevelUp is applied.     *)

\* ENEMY_CONFIGS[type].xpValue: the values an XP pickup can carry
XpValues == {1, 2, 3, 15}

L_GainXp ==
    /\ \E n \in XpValues :
         /\ player.xp + n <= MaxXp
         /\ player' = [player EXCEPT !.xp = player.xp + n]
    /\ call' = [op |-> "gainXp", ret |-> FALSE]
    /\ UNCHANGED <<restOfGame, deathSignals>>

L_CheckLevelUp ==
    /\ LET r == checkLevelUp(player, Bal)
       IN  /\ player' = r.p
           /\ call' = [op |-> "checkLevelUp", ret |-> r.ret]
    /\ UNCHANGED <<restOfGame, deathSignals>>

NextLevel == L_GainXp \/ L_CheckLevelUp

SpecLevel == InitPlayer /\ [][NextLevel]_vars

\* C8: checkLevelUp with xp at or above level * xpPerLevelMult + xpPerLevelBase
\* takes exactly that threshold off xp, adds exactly 1 to level and returns
\* true; below the threshold it changes nothing and returns false.
C8_OneLevelPerCheck ==
    [][call'.op = "checkLevelUp" =>
         LET needed == player.level * Bal.xpPerLevelMult + Bal.xpPerLevelBase
         IN  IF player.xp >= needed
             THEN /\ call'.ret
                  /\ player' = [player EXCEPT !.xp = player.xp - needed,
                                              !.level = player.level + 1]
             ELSE /\ ~call'.ret
                  /\ player' = player]_vars

\* a check has just levelled up once although the xp left over still meets
\* the next threshold
C8_Witness ==
    /\ call.op = "checkLevelUp"
    /\ call.ret
    /\ player.level = 2
    /\ player.xp >= 2 * Bal.xpPerLevelMult + Bal.xpPerLevelBase

----------------------------------------------------------------------------
(* Spawner.ts *)

\* bound: an update is explored while the elapsed time is at most this many
\* MAX_DT past a danger-level boundary (or within LeadIn before the next, or
\* at most MAX_DT past the initial spawn delay)
MaxRunTicks == 12

\* bound: enemies are removed only while the count stays within this many of
\* maxEnemies, or is at most this many
CountWindow == 3

LeadIn == Ms(100)

getDangerLevel(s, bal) == Min(10, (s.elapsedTime \div bal.dangerPeriod) + 1)

\* elapsedTime * spawnIntervalDecay, the decay given in thousandths
getSpawnInterval(s, bal) ==
    Max(bal.minSpawnInterval,
        bal.baseSpawnInterval
          - (s.elapsedTime \div 1000) * bal.spawnIntervalDecay1000)

\* the types chooseEnemyType returns with positive probability
chooseEnemyType(s, bal) ==
    IF s.elapsedTime < bal.earlyPhaseEnd
    THEN {Basic, Fast}
    ELSE {Basic, Fast, Tank, Ranged, Exploder}

\* Spawner.update with the headroom computed before the boss is counted
SpawnerUpdate_HeadroomIgnoresBoss(s, dt, currentCount, bal) ==
    LET s1 == [s EXCEPT !.elapsedTime = s.elapsedTime + dt,
                        !.spawnTimer = s.spawnTimer - dt]
        dangerLevel == getDangerLevel(s1, bal)
        boss == /\ dangerLevel >= bal.bossInterval
                /\ dangerLevel % bal.bossInterval = 0
                /\ s1.lastBossDangerLevel < dangerLevel
        s2 == IF boss THEN [s1 EXCEPT !.lastBossDangerLevel = dangerLevel]
                      ELSE s1
    IN  IF s2.spawnTimer <= 0
        THEN LET s3 == [s2 EXCEPT !.spawnTimer = getSpawnInterval(s2, bal)]
                 headroom == bal.maxEnemies - currentCount
             IN  [s |-> s3, boss |-> boss,
                  regular |-> IF headroom <= 0 THEN 0
                              ELSE Min(headroom,
                                       Min(bal.maxSpawnPerTick,
                                           1 + (s3.elapsedTime
                                                  \div bal.spawnCountDivisor)))]
        ELSE [s |-> s2, boss |-> boss, regular |-> 0]

\* Spawner.update that does not record the danger level of the boss it emits
SpawnerUpdate_ForgetsBossLevel(s, dt, currentCount, bal) ==
    LET s1 == [s EXCEPT !.elapsedTime = s.elapsedTime + dt,
                        !.spawnTimer = s.spawnTimer - dt]
        dangerLevel == getDangerLevel(s1, bal)
        boss == /\ dangerLevel >= bal.bossInterval
                /\ dangerLevel % bal.bossInterval = 0
                /\ s1.lastBossDangerLevel < dangerLevel
        s2 == s1
        nSpawned == IF boss THEN 1 ELSE 0
    IN  IF s2.spawnTimer <= 0
        THEN LET s3 == [s2 EXCEPT !.spawnTimer = getSpawnInterval(s2, bal)]
                 headroom == bal.maxEnemies - currentCount - nSpawned
             IN  [s |-> s3, boss |-> boss,
                  regular |-> IF headroom <= 0 THEN 0
                              ELSE Min(headroom,
                                       Min(bal.maxSpawnPerTick,
                                           1 + (s3.elapsedTime
                                                  \div bal.spawnCountDivisor)))]
        ELSE [s |-> s2, boss |-> boss, regular |-> 0]

\* Spawner.update that emits the boss only on a regular spawn tick
SpawnerUpdate_BossOnSpawnTick(s, dt, currentCount, bal) ==
    LET s1 == [s EXCEPT !.elapsedTime = s.elapsedTime + dt,
                        !.spawnTimer = s.spawnTimer - dt]
        dangerLevel == getDangerLevel(s1, bal)
        boss == /\ dangerLevel >= bal.bossInterval
                /\ dangerLevel % bal.bossInterval = 0
                /\ s1.lastBossDangerLevel < dangerLevel
                /\ s1.spawnTimer <= 0
        s2 == IF boss THEN [s1 EXCEPT !.lastBossDangerLevel = dangerLevel]
                      ELSE s1
        nSpawned == IF boss THEN 1 ELSE 0
    IN  IF s2.spawnTimer <= 0
        THEN LET s3 == [s2 EXCEPT !.spawnTimer = getSpawnInterval(s2, bal)]
                 headroom == bal.maxEnemies - currentCount - nSpawned
             IN  [s |-> s3, boss |-> boss,
                  regular |-> IF headroom <= 0 THEN 0
                              ELSE Min(headroom,
                                       Min(bal.maxSpawnPerTick,
                                           1 + (s3.elapsedTime
                                                  \div bal.spawnCountDivisor)))]
        ELSE [s |-> s2, boss |-> boss, regular |-> 0]

\* Spawner.update: the new timers, whether a boss is returned and how many
\* regular enemies are returned after it
SpawnerUpdate(s, dt, currentCount, bal) ==
    LET s1 == [s EXCEPT !.elapsedTime = s.elapsedTime + dt,
                        !.spawnTimer = s.spawnTimer - dt]
        dangerLevel == getDangerLevel(s1, bal)
        boss == /\ dangerLevel >= bal.bossInterval
                /\ dangerLevel % bal.bossInterval = 0
                /\ s1.lastBossDangerLevel < dangerLevel
        s2 == IF boss THEN [s1 EXCEPT !.lastBossDangerLevel = dangerLevel]
                      ELSE s1
        nSpawned == IF boss THEN 1 ELSE 0
    IN  IF s2.spawnTimer <= 0
        THEN LET s3 == [s2 EXCEPT !.spawnTimer = getSpawnInterval(s2, bal)]
                 headroom == bal.maxEnemies - currentCount - nSpawned
             IN  [s |-> s3, boss |-> boss,
                  regular |-> IF headroom <= 0 THEN 0
                              ELSE Min(headroom,
                                       Min(bal.maxSpawnPerTick,
                                           1 + (s3.elapsedTime
                                                  \div bal.spawnCountDivisor)))]
        ELSE [s |-> s2, boss |-> boss, regular |-> 0]

\* Spawner.reset that leaves no delay before the first spawn
SpawnerReset_NoDelay(s, bal) ==
    [s EXCEPT !.spawnTimer = 0,
              !.elapsedTime = 0,
              !.lastBossDangerLevel = 0]

SpawnerReset(s, bal) ==
    [s EXCEPT !.spawnTimer = bal.initialSpawnDelay,
              !.elapsedTime = 0,
              !.lastBossDangerLevel = 0]

\* danger levels at which a boss is due
BossLevels(bal) == { d \in 1..10 : d % bal.bossInterval = 0 }

\* A run just before it enters boss level d: the danger levels below d were
\* all computed, every earlier boss was emitted, and the arena holds about
\* maxEnemies enemies (one more if an earlier boss is still among them).
SpawnerBeforeBoss(bal) ==
    { [s |-> [spawnTimer |-> t,
              elapsedTime |-> (d - 1) * bal.dangerPeriod - LeadIn,
              lastBossDangerLevel |-> d - bal.bossInterval],
       log |-> [seen |-> 1..(d - 1),
                bosses |-> [L \in 1..10 |->
                              IF L < d /\ L \in BossLevels(bal) THEN 1 ELSE 0]],
       n |-> n] :
        d \in BossLevels(bal), t \in {Ms(25), LeadIn},
        n \in {bal.maxEnemies - 1, bal.maxEnemies} }

InitSpawner ==
    /\ state = "Playing"
    /\ difficulty \in Difficulties
    /\ player = reset(applyBalance(PlayerNew, getBalanceConfig(difficulty)),
                      getBalanceConfig(difficulty))
    /\ \E start \in SpawnerBeforeBoss(getBalanceConfig(difficulty))
                     \cup {[s |-> SpawnerReset(SpawnerNew,
                                               getBalanceConfig(difficulty)),
                            log |-> NoBossLog,
                            n |-> 0]} :
         /\ spawner = start.s
         /\ bossLog = start.log
         /\ sinceKill = NoKillYet
         /\ sinceContact = <<>>
         /\ camera = CameraNew
         /\ lastTime = 0
         /\ enemyCount = start.n
    /\ InitRest
    /\ call = NoCall
    /\ deathSignals = 0

\* the log after an update call that computed danger level L and returned a
\* boss or none
Logged(log, L, boss) ==
    [seen |-> log.seen \cup {L},
     bosses |-> IF boss THEN [log.bosses EXCEPT ![L] = @ + 1] ELSE log.bosses]

\* Game.updatePlaying 332-343: the spawner is updated with enemies.length and
\* what it returns is pushed
S_Update ==
    \E dt \in DtSet :
      LET bal == getBalanceConfig(difficulty)
          r == SpawnerUpdate(spawner, dt, enemyCount, bal)
          past == r.s.elapsedTime % bal.dangerPeriod
      IN  /\ \/ past <= MaxRunTicks * MAX_DT
             \/ past >= bal.dangerPeriod - LeadIn
             \/ r.s.elapsedTime <= bal.initialSpawnDelay + MAX_DT
          /\ spawner' = r.s
          /\ enemyCount' = enemyCount + (IF r.boss THEN 1 ELSE 0) + r.regular
          /\ bossLog' = Logged(bossLog, getDangerLevel(r.s, bal), r.boss)
          /\ call' = [op |-> "spawnerUpdate",
                      ret |-> [boss |-> r.boss, regular |-> r.regular,
                               currentCount |-> enemyCount]]
          /\ UNCHANGED <<state, difficulty, player, deathSignals, entityLists,
                       menuAndSave, sinceKill, sinceContact, camera, lastTime>>

\* Game.removeDeadEntities: killed enemies leave the list before the next tick
S_Remove ==
    /\ \E k \in 1..2 :
         /\ enemyCount >= k
         /\ \/ enemyCount <= CountWindow
            \/ enemyCount - k
                 >= getBalanceConfig(difficulty).maxEnemies - CountWindow
         /\ enemyCount' = enemyCount - k
    /\ call' = [op |-> "removeDeadEntities", ret |-> FALSE]
    /\ UNCHANGED <<state, difficulty, player, spawner, deathSignals,
                   entityLists, menuAndSave, bossLog, sinceKill, sinceContact, camera, lastTime>>

\* Game.startNewGame: Spawner.reset and an empty enemy list; the player of
\* this specification is the reset player already
S_Reset ==
    /\ spawner' = SpawnerReset(spawner, getBalanceConfig(difficulty))
    /\ enemyCount' = 0
    /\ bossLog' = NoBossLog
    /\ call' = [op |-> "startNewGame", ret |-> FALSE]
    /\ UNCHANGED <<state, difficulty, player, deathSignals, entityLists,
                   menuAndSave, sinceKill, sinceContact, camera, lastTime>>

NextSpawner == S_Update \/ S_Remove \/ S_Reset

SpecSpawner == InitSpawner /\ [][NextSpawner]_vars

----------------------------------------------------------------------------
(* Game.ts: the orchestrator.  The operators below work on a record g of   *)
(* the Game fields and return the record after the call.  g.out collects   *)
(* what the tick did: played (updatePlaying ran), started (startNewGame    *)
(* ran), leveledUp (checkLevelUp returned true).                           *)

\* Menu.ts: the actions of the buttons Menu.render registers for a state;
\* "diff_" + i and "upgrade_" + i are kept as the list of their values
DiffActions == <<"diff_0", "diff_1", "diff_2", "diff_3">>

UpgradeActions == <<"upgrade_0", "upgrade_1", "upgrade_2">>

\* parseInt(action.substring(n), 10) for an action of the list
ActionIndex(list, action) == (CHOOSE i \in DOMAIN list : list[i] = action) - 1

IsOneOf(list, action) == \E i \in DOMAIN list : list[i] = action

MenuRender(buttons, st, nChoices) ==
    CASE st = "StartMenu" ->
             { DiffActions[i] : i \in DOMAIN DiffActions } \cup {"start", "howtoplay"}
      [] st = "HowToPlay" -> {"back"}
      [] st = "Paused" -> {"resume", "restart", "quit"}
      [] st = "LevelUp" -> { UpgradeActions[i] : i \in 1..nChoices }
      [] st = "GameOver" -> {"restart", "quit"}
      [] OTHER -> buttons

\* Game.render: Menu.render is called in every state but Playing
Render(buttons, g) == MenuRender(buttons, g.state, Len(g.upgradeChoices))

Swap(a, i, j) == [a EXCEPT ![i] = a[j], ![j] = a[i]]

\* the Fisher-Yates loop from index i (0-based) down to 1, rnd[i] being the
\* value of randInt(0, i)
RECURSIVE FisherYates(_, _, _)
FisherYates(a, i, rnd) ==
    IF i < 1 THEN a
    ELSE Then(Swap(a, i + 1, rnd[i] + 1),
              LAMBDA swapped : FisherYates(swapped, i - 1, rnd))

\* the values randInt can return in a shuffle of n entries
RECURSIVE RandomDraws(_)
RandomDraws(n) ==
    IF n <= 1 THEN {<<>>}
    ELSE { Append(f, j) : f \in RandomDraws(n - 1), j \in 0..(n - 1) }

Available(p) ==
    SelectSeq([i \in 1..Len(UPGRADES) |-> i - 1],
              LAMBDA id : p.upgradeLevels[id] < maxLevel(id))

\* getRandomUpgrades offering from all upgrades, maxed or not
getRandomUpgrades_IgnoresMaxLevel(p, count, rnd) ==
    SubSeq([i \in 1..Len(UPGRADES) |-> i - 1], 1, Min(count, Len(UPGRADES)))

getRandomUpgrades(p, count, rnd) ==
    LET available == Available(p)
        shuffled == FisherYates(available, Len(available) - 1, rnd)
    IN  SubSeq(shuffled, 1, Min(count, Len(available)))

startNewGame(g) ==
    LET bal == getBalanceConfig(g.difficulty)
    IN  [g EXCEPT !.player = reset(applyBalance(g.player, bal), bal),
                  !.bullets = <<>>, !.enemyBullets = <<>>,
                  !.enemies = <<>>, !.pickups = <<>>,
                  !.spawner = SpawnerReset(g.spawner, bal),
                  !.state = "Playing",
                  !.gameOvers = 0, !.deathSignals = 0,
                  !.out.started = TRUE]

\* Game.enterLevelUp: getRandomUpgrades(3)
OfferCount == 3

enterLevelUp(g, rnd) ==
    Then(getRandomUpgrades(g.player, OfferCount, rnd), LAMBDA choices :
         IF Len(choices) = 0
         THEN [g EXCEPT !.upgradeChoices = choices]
         ELSE [g EXCEPT !.upgradeChoices = choices, !.state = "LevelUp"])

\* a game over that records the run's values whether they are better or not
enterGameOver_OverwritesRecords(g) ==
    [g EXCEPT !.state = "GameOver",
              !.saveData =
                  [bestTime |-> g.spawner.elapsedTime,
                   bestKills |-> g.player.killCount,
                   bestLevel |-> g.player.level],
              !.out.saved = TRUE,
              !.gameOvers = @ + 1]

\* Game.enterGameOver lines 570-592; out.saved says persistSave was called
enterGameOver(g) ==
    LET elapsed == g.spawner.elapsedTime
        time    == elapsed > g.saveData.bestTime
        kills   == g.player.killCount > g.saveData.bestKills
        level   == g.player.level > g.saveData.bestLevel
    IN  [g EXCEPT !.state = "GameOver",
                  !.saveData =
                      [bestTime |-> IF time THEN elapsed ELSE @.bestTime,
                       bestKills |-> IF kills THEN g.player.killCount
                                     ELSE @.bestKills,
                       bestLevel |-> IF level THEN g.player.level
                                     ELSE @.bestLevel],
                  !.out.saved = time \/ kills \/ level,
                  !.gameOvers = @ + 1]

\* a selection that applies the first upgrade of the table, offered or not
selectUpgrade_FirstOfTable(g, index) ==
    [g EXCEPT !.player = applyUpgrade(g.player, 0,
                                      getBalanceConfig(g.difficulty)),
              !.state = "Playing"]

selectUpgrade(g, index) ==
    [g EXCEPT !.player = applyUpgrade(g.player, g.upgradeChoices[index + 1],
                                      getBalanceConfig(g.difficulty)),
              !.state = "Playing"]

\* click is the action Menu.handleClick returns, "none" when no button was
\* hit or the mouse was not pressed
updateMenuInput(g, click) ==
    CASE IsOneOf(DiffActions, click) ->
             [g EXCEPT !.selectedDifficulty = ActionIndex(DiffActions, click)]
      [] click = "start" ->
             startNewGame([g EXCEPT !.difficulty = g.selectedDifficulty])
      [] click = "howtoplay" -> [g EXCEPT !.state = "HowToPlay"]
      [] click = "back" -> [g EXCEPT !.state = "StartMenu"]
      [] click = "resume" -> [g EXCEPT !.state = "Playing"]
      [] click = "restart" -> startNewGame(g)
      [] click = "quit" -> [g EXCEPT !.state = "StartMenu"]
      [] OTHER -> g

\* digits is the set of the keys "1", "2", "3" pressed in the frame
updateLevelUpInput(g, digits, click) ==
    LET pressed == { i \in 0..(Len(g.upgradeChoices) - 1) : (i + 1) \in digits }
    IN  IF pressed # {}
        THEN selectUpgrade(g, CHOOSE i \in pressed : \A j \in pressed : i <= j)
        ELSE IF /\ IsOneOf(UpgradeActions, click)
                /\ ActionIndex(UpgradeActions, click) < Len(g.upgradeChoices)
             THEN selectUpgrade(g, ActionIndex(UpgradeActions, click))
             ELSE g

\* Utils.ts entity caps
MAX_BULLETS == 500

MAX_ENEMY_BULLETS == 200

MAX_PICKUPS == 300

\* arr.push(x) n times, each while arr.length <= cap
RECURSIVE PushCapped_OneTooMany(_, _, _, _)
PushCapped_OneTooMany(arr, x, n, cap) ==
    IF n = 0 THEN arr
    ELSE Then(IF Len(arr) <= cap THEN Append(arr, x) ELSE arr,
              LAMBDA more : PushCapped_OneTooMany(more, x, n - 1, cap))

\* arr.push(x) n times, each only while arr.length < cap
RECURSIVE PushCapped(_, _, _, _)
PushCapped(arr, x, n, cap) ==
    IF n = 0 THEN arr
    ELSE Then(IF Len(arr) < cap THEN Append(arr, x) ELSE arr,
              LAMBDA more : PushCapped(more, x, n - 1, cap))

\* Game.removeDeadEntities: swap-and-pop from index i (1-based) down to 1;
\* the loop goes on with the next not-alive entry below
RECURSIVE RemoveDeadFrom(_, _)
RemoveDeadFrom(arr, i) ==
    Then({ j \in 1..i : ~arr[j].alive }, LAMBDA dead :
    IF dead = {}
    THEN arr
    ELSE Then(Greatest(dead), LAMBDA j :
         Then(SubSeq([arr EXCEPT ![j] = arr[Len(arr)]], 1, Len(arr) - 1),
              LAMBDA rest : RemoveDeadFrom(rest, j - 1))))

\* the sweep that starts one entry below the last
removeDeadEntities_SkipsLast(arr) == RemoveDeadFrom(arr, Len(arr) - 1)

removeDeadEntities(arr) == RemoveDeadFrom(arr, Len(arr))

\* Game.updatePlaying lines 435-439: the four entity lists are swept
SweepDead(g) ==
    [g EXCEPT !.bullets = removeDeadEntities(@),
              !.enemyBullets = removeDeadEntities(@),
              !.enemies = removeDeadEntities(@),
              !.pickups = removeDeadEntities(@)]

\* Game.updatePlaying lines 274-343: player, enemies, bullets, pickups and
\* spawner are advanced by dt.  The inputs of this part:
\*   in.dt, in.dash, in.shoot
\*   in.inRange     the Ranged enemies closer than 500 to the player
\*   in.leftArena, in.enemyLeftArena   the bullets the move takes out of the
\*                  arena (indices after the new bullets were pushed)
\*   in.types       the types chooseEnemyType draws for the regular spawns
MovePhase(g, in) ==
    LET bal == getBalanceConfig(g.difficulty)
    IN  Then(PlayerUpdate(g.player, in.dt, [dash |-> in.dash, shoot |-> in.shoot]),
             LAMBDA pu :
        Then([i \in 1..Len(g.enemies) |->
                 EnemyUpdate(g.enemies[i], in.dt, i \in in.inRange, bal)],
             LAMBDA eu :
        Then(SpawnerUpdate(g.spawner, in.dt, Len(g.enemies), bal), LAMBDA sp :
        LET bullets1 == PushCapped(g.bullets, BulletNew(pu.p), pu.fired,
                                   MAX_BULLETS)
            shooters == SelectSeq([i \in 1..Len(g.enemies) |-> i],
                                  LAMBDA i : eu[i].fired)
            enemyBullets1 == PushCapped(g.enemyBullets, EnemyBulletNew(bal),
                                        Len(shooters), MAX_ENEMY_BULLETS)
            boss == IF sp.boss
                    THEN <<EnemyNew(Boss, sp.s.elapsedTime, bal)>> ELSE <<>>
            regular == [i \in 1..sp.regular |->
                          EnemyNew(in.types[i], sp.s.elapsedTime, bal)]
        IN  [g EXCEPT
               !.player = pu.p,
               !.enemies = [i \in 1..Len(g.enemies) |-> eu[i].e] \o boss
                             \o regular,
               !.bullets = Then(bullets1, LAMBDA bs :
                              [i \in 1..Len(bs) |->
                                  BulletUpdate(bs[i], i \in in.leftArena)]),
               !.enemyBullets = Then(enemyBullets1, LAMBDA bs :
                                   [i \in 1..Len(bs) |->
                                       BulletUpdate(bs[i],
                                                    i \in in.enemyLeftArena)]),
               !.pickups = [i \in 1..Len(g.pickups) |->
                               PickupUpdate(g.pickups[i], in.dt)],
               !.spawner = sp.s])))

\* Game.updatePlaying lines 374-388: pickups, combo and bonus xp for the
\* killed enemies i..Len(killed); drops holds the enemies for which
\* Math.random() < healthDropChance.  killed are enemy records with their index.
RECURSIVE RewardKills(_, _, _, _)
RewardKills(g, killed, i, drops) ==
    IF i > Len(killed) THEN g
    ELSE LET bal == getBalanceConfig(g.difficulty)
             xpValue == ENEMY_CONFIGS_xpValue[killed[i].type + 1]
             pk1 == PushCapped(g.pickups, PickupNew(XP, xpValue), 1, MAX_PICKUPS)
             pk2 == IF killed[i].index \in drops
                    THEN PushCapped(pk1, PickupNew(Health, 1), 1, MAX_PICKUPS)
                    ELSE pk1
         IN  Then(registerKill(g.player, bal), LAMBDA p1 :
             Then([g EXCEPT
                     !.pickups = pk2,
                     !.player =
                         IF p1.combo.multiplier100 > 100
                         THEN [p1 EXCEPT !.xp = @ + (xpValue
                                  * (p1.combo.multiplier100 - 100)) \div 100]
                         ELSE p1],
                  LAMBDA g1 : RewardKills(g1, killed, i + 1, drops)))

\* Game.updatePlaying lines 426-433 with the death check before the
\* level-up check
FinishTick_DeathCheckFirst(g, rnd) ==
    Then(IF ~g.player.alive THEN enterGameOver(g) ELSE g, LAMBDA g1 :
    Then(checkLevelUp(g1.player, getBalanceConfig(g1.difficulty)), LAMBDA lu :
    Then([g1 EXCEPT !.player = lu.p, !.out.leveledUp = lu.ret], LAMBDA g2 :
    IF lu.ret THEN enterLevelUp(g2, rnd) ELSE g2)))

\* Game.updatePlaying lines 426-433: level-up check, then death check
FinishTick(g, rnd) ==
    Then(checkLevelUp(g.player, getBalanceConfig(g.difficulty)), LAMBDA lu :
    Then([g EXCEPT !.player = lu.p, !.out.leveledUp = lu.ret], LAMBDA g1 :
    Then(IF lu.ret THEN enterLevelUp(g1, rnd) ELSE g1, LAMBDA g2 :
    IF ~g2.player.alive THEN enterGameOver(g2) ELSE g2)))

\* Game.updatePlaying lines 346-439: collisions, rewards, collected xp and
\* health, level-up and death checks, sweep of the dead entities.
\* in.ov are the overlaps, in.drops the killed enemies that drop health,
\* in.rnd the draws of the upgrade shuffle.
CollidePhase(g, in) ==
    Then(checkAll(g.player, g.enemies, g.bullets, g.enemyBullets, g.pickups,
                  in.ov, getBalanceConfig(g.difficulty)),
         LAMBDA st :
    Then(RewardKills([g EXCEPT !.player = st.player, !.enemies = st.enemies,
                               !.bullets = st.bullets,
                               !.enemyBullets = st.enemyBullets,
                               !.pickups = st.pickups,
                               !.deathSignals = @ + st.deaths],
                     [i \in 1..Len(st.enemiesKilled) |->
                        [type |-> st.enemies[st.enemiesKilled[i]].type,
                         index |-> st.enemiesKilled[i]]],
                     1, in.drops),
         LAMBDA g2 :
    Then(IF st.xpGained > 0
         THEN [g2 EXCEPT !.player.xp = @ + st.xpGained] ELSE g2, LAMBDA g3 :
    Then(IF st.healthGained > 0
         THEN [g3 EXCEPT !.player = heal(@, st.healthGained)] ELSE g3,
         LAMBDA g4 :
    Then(FinishTick(g4, in.rnd), LAMBDA g5 : SweepDead(g5))))))

updatePlaying(g, in) ==
    Then(MovePhase([g EXCEPT !.out.played = TRUE], in),
         LAMBDA g1 : CollidePhase(g1, in))

\* the per-state update where the run's clock keeps running while paused
Dispatch_PausedClockRuns(g, in) ==
    CASE g.state = "Playing" -> updatePlaying(g, in)
      [] g.state = "LevelUp" -> updateLevelUpInput(g, in.digits, in.click)
      [] g.state = "Paused" ->
             [updateMenuInput(g, in.click)
                 EXCEPT !.spawner.elapsedTime = @ + in.dt]
      [] OTHER -> updateMenuInput(g, in.click)

\* Game.update lines 244-256: per-state update
Dispatch(g, in) ==
    CASE g.state = "Playing" -> updatePlaying(g, in)
      [] g.state = "LevelUp" -> updateLevelUpInput(g, in.digits, in.click)
      [] OTHER -> updateMenuInput(g, in.click)

\* Game.update where Escape also pauses the level-up screen
GameUpdate_EscPausesLevelUp(g, in) ==
    LET g1 == IF in.focusLost /\ g.state = "Playing"
              THEN [g EXCEPT !.state = "Paused"] ELSE g
    IN  IF in.esc /\ g1.state \in {"Playing", "LevelUp"}
        THEN [g1 EXCEPT !.state = "Paused"]
        ELSE IF in.esc /\ g1.state = "Paused" THEN [g1 EXCEPT !.state = "Playing"]
        ELSE IF in.esc /\ g1.state = "HowToPlay"
             THEN [g1 EXCEPT !.state = "StartMenu"]
        ELSE Dispatch(g1, in)

\* Game.update: in.focusLost and in.esc are Input.focusLost and
\* wasKeyPressed("escape") of the frame
GameUpdate(g, in) ==
    LET g1 == IF in.focusLost /\ g.state = "Playing"
              THEN [g EXCEPT !.state = "Paused"] ELSE g
    IN  IF in.esc /\ g1.state = "Playing" THEN [g1 EXCEPT !.state = "Paused"]
        ELSE IF in.esc /\ g1.state = "Paused" THEN [g1 EXCEPT !.state = "Playing"]
        ELSE IF in.esc /\ g1.state = "HowToPlay"
             THEN [g1 EXCEPT !.state = "StartMenu"]
        ELSE Dispatch(g1, in)

----------------------------------------------------------------------------
(* Specification of the orchestrator: one action per frame, by the state   *)
(* the frame begins in.  A frame is Game.update followed by Game.render.   *)

\* bound: a run is explored for this many MAX_DT of play after it started,
\* or after the moment RunMark at which the runs of Init are taken up
MaxPlayTicks == 1

RunMark == Ms(10000)

NoOut == [played |-> FALSE, started |-> FALSE, leveledUp |-> FALSE,
          saved |-> FALSE]

\* the sequences without repetition over the set S
SeqsNoDup(S) ==
    UNION { { q \in [1..n -> S] : \A i, j \in 1..n : i # j => q[i] # q[j] } :
            n \in 0..Cardinality(S) }

\* the input of a frame of MAX_DT in which nothing is pressed and nothing
\* overlaps
NoInput ==
    [ focusLost |-> FALSE, esc |-> FALSE, click |-> "none", digits |-> {},
      dt |-> MAX_DT, dash |-> FALSE, shoot |-> FALSE, inRange |-> {},
      leftArena |-> {}, enemyLeftArena |-> {}, types |-> <<>>,
      ov |-> [bulletHits |-> <<>>, enemyBulletHits |-> {}, contacts |-> <<>>,
              blasts |-> {}, pickupHits |-> {}],
      drops |-> {}, rnd |-> [i \in 1..(Len(UPGRADES) - 1) |-> 0] ]

\* bound: fire is pressed only if the shot leaves at most this many bullets
\* in flight
MaxBulletsInFlight == 1

\* the Game fields as a record
Game ==
    [ state |-> state, player |-> player, difficulty |-> difficulty,
      spawner |-> spawner, enemies |-> enemies, bullets |-> bullets,
      enemyBullets |-> enemyBullets, pickups |-> pickups,
      selectedDifficulty |-> selectedDifficulty,
      upgradeChoices |-> upgradeChoices, saveData |-> saveData,
      gameOvers |-> gameOvers, deathSignals |-> deathSignals,
      out |-> NoOut ]

\* Game.loop after its timestamp arithmetic: update(dt) with the input in
\* (in.dt is the delta) takes the Game to GameUpdate(Game, in), and render
\* draws it
UpdateAndRender(in) ==
    \E g \in {GameUpdate(Game, in)} :
        /\ state' = g.state
        /\ player' = g.player
        /\ difficulty' = g.difficulty
        /\ spawner' = g.spawner
        /\ enemies' = g.enemies
        /\ bullets' = g.bullets
        /\ enemyBullets' = g.enemyBullets
        /\ pickups' = g.pickups
        /\ menuButtons' = Render(menuButtons, g)
        /\ selectedDifficulty' = g.selectedDifficulty
        /\ upgradeChoices' = g.upgradeChoices
        /\ saveData' = g.saveData
        /\ gameOvers' = g.gameOvers
        /\ deathSignals' = g.deathSignals
        /\ call' = [op |-> "frame",
                    ret |-> [from |-> state,
                             focusLost |-> in.focusLost /\ state = "Playing",
                             played |-> g.out.played,
                             started |-> g.out.started,
                             leveledUp |-> g.out.leveledUp]]
        /\ UNCHANGED <<enemyCount, bossLog, sinceKill, sinceContact, camera>>

\* Game.loop for a frame with input in whose timestamps give the delta in.dt
FrameWith(in) ==
    /\ UpdateAndRender(in)
    /\ UNCHANGED lastTime

\* A frame in which updatePlaying runs.  Its inputs: dt, dash and fire; the
\* Ranged enemies in range; the bullets in flight that leave the arena; the
\* types of the spawned enemies; the overlaps after the move (every alive
\* bullet may overlap any enemies, in any query order; an exploder touching
\* the player also reaches it with its blast); the killed enemies that drop
\* health; the shuffle draws if the frame levels the player up.
PlayFrame(base) ==
    LET bal == getBalanceConfig(difficulty)
        ranged == { e \in 1..Len(enemies) : enemies[e].type = Ranged }
    IN  \E dt \in {MAX_DT}, dash \in BOOLEAN, shoot \in BOOLEAN,
           ir \in SUBSET ranged, la \in SUBSET (1..Len(bullets)),
           ela \in SUBSET (1..Len(enemyBullets)) :
          /\ (spawner.elapsedTime + dt) % RunMark <= MaxPlayTicks * MAX_DT
          /\ shoot => Len(bullets) + 1 + 2 * player.spreadLevel <= MaxBulletsInFlight
          /\ \E sp \in {SpawnerUpdate(spawner, dt, Len(enemies), bal)} :
             \E ty \in [1..sp.regular -> chooseEnemyType(sp.s, bal)] :
             \E m \in {[base EXCEPT !.dt = dt, !.dash = dash, !.shoot = shoot,
                                    !.inRange = ir, !.leftArena = la,
                                    !.enemyLeftArena = ela, !.types = ty]} :
             \E g1 \in {MovePhase(Game, m)} :
             \E E \in {1..Len(g1.enemies)} :
             \E bh \in [1..Len(g1.bullets) -> SeqsNoDup(E)],
                eb \in SUBSET (1..Len(g1.enemyBullets)),
                c \in SeqsNoDup(E),
                bl \in SUBSET { e \in E : g1.enemies[e].type = Exploder },
                pk \in SUBSET (1..Len(g1.pickups)) :
               /\ \A b \in DOMAIN bh : ~g1.bullets[b].alive => bh[b] = <<>>
               /\ \A b \in eb : g1.enemyBullets[b].alive
               /\ \A k \in pk : g1.pickups[k].alive
               /\ \A i \in DOMAIN c :
                     g1.enemies[c[i]].type = Exploder => c[i] \in bl
               /\ \E ov \in {[bulletHits |-> bh, enemyBulletHits |-> eb,
                               contacts |-> c, blasts |-> bl,
                               pickupHits |-> pk]} :
                  \E st \in {checkAll(g1.player, g1.enemies, g1.bullets,
                                      g1.enemyBullets, g1.pickups, ov, bal)} :
                  \E dr \in SUBSET { st.enemiesKilled[i] :
                                       i \in DOMAIN st.enemiesKilled } :
                  \E in \in {[m EXCEPT !.ov = ov, !.drops = dr]} :
                  \E lu \in {CollidePhase(g1, in).out.leveledUp} :
                     IF lu
                     THEN \E rnd \in RandomDraws(Len(Available(player))) :
                             FrameWith([in EXCEPT !.rnd = rnd])
                     ELSE FrameWith(in)

\* Game.loop for a frame that begins in the state from
Frame(from) ==
    \E focusLost \in BOOLEAN, esc \in BOOLEAN :
       LET base == [NoInput EXCEPT !.focusLost = focusLost, !.esc = esc]
           st == IF focusLost /\ from = "Playing" THEN "Paused" ELSE from
       IN  IF esc /\ st \in {"Playing", "Paused", "HowToPlay"}
           THEN FrameWith(base)
           ELSE IF st = "Playing"
           THEN PlayFrame(base)
           ELSE IF st = "LevelUp"
           THEN \E dg \in SUBSET (1..3), c \in menuButtons \cup {"none"} :
                   FrameWith([base EXCEPT !.digits = dg, !.click = c])
           ELSE \E c \in menuButtons \cup {"none"} :
                   FrameWith([base EXCEPT !.click = c])

FrameStartMenu ==
    /\ state = "StartMenu"
    /\ Frame("StartMenu")

FrameHowToPlay ==
    /\ state = "HowToPlay"
    /\ Frame("HowToPlay")

FramePlaying ==
    /\ state = "Playing"
    /\ Frame("Playing")

FramePaused ==
    /\ state = "Paused"
    /\ Frame("Paused")

FrameLevelUp ==
    /\ state = "LevelUp"
    /\ Frame("LevelUp")

FrameGameOver ==
    /\ state = "GameOver"
    /\ Frame("GameOver")

NextGame ==
    \/ FrameStartMenu
    \/ FrameHowToPlay
    \/ FramePlaying
    \/ FramePaused
    \/ FrameLevelUp
    \/ FrameGameOver

\* the player after levelling up to the upgrade levels lv, one upgrade per
\* level; id is the next upgrade to look at
RECURSIVE UpgradedTo(_, _, _, _)
UpgradedTo(p, lv, id, bal) ==
    IF id >= Len(UPGRADES) THEN p
    ELSE IF p.upgradeLevels[id] < lv[id]
    THEN Then([applyUpgrade(p, id, bal) EXCEPT !.level = @ + 1],
              LAMBDA q : UpgradedTo(q, lv, id, bal))
    ELSE UpgradedTo(p, lv, id + 1, bal)

\* upgrade levels with the last k upgrades untouched and the others at maximum
LevelsWithAvailable(k) ==
    [id \in UpgradeIds |-> IF id < Len(UPGRADES) - k THEN maxLevel(id) ELSE 0]


\* the last positive hit points of an enemy under hits of the given damage
WoundedHp(hp1000, damage1000) ==
    hp1000 - ((hp1000 - 1) \div damage1000) * damage1000

SpawnerMidRun == [spawnTimer |-> Ms(500), elapsedTime |-> RunMark,
                  lastBossDangerLevel |-> 0]

\* the player of a run with k upgrades still available, one xp short of
\* the next level
AlmostLevelled(k, bal) ==
    LET q == UpgradedTo(reset(applyBalance(PlayerNew, bal), bal),
                        LevelsWithAvailable(k), 0, bal)
    IN  [q EXCEPT !.xp = xpToNextLevel(q, bal) - 1]

\* Runs taken up at RunMark: a player one xp short of the next level with
\* fewer, as many or more upgrades still available than a level-up offers,
\* and an XP pickup around; the
\* last menu shown was the pause menu.
LevelUpRuns(bal) ==
    { [ player |-> AlmostLevelled(k, bal),
        enemies |-> <<>>, bullets |-> <<>>, enemyBullets |-> <<>>,
        pickups |-> <<PickupNew(XP, 1)>>,
        buttons |-> MenuRender({}, "Paused", 0) ] : k \in 0..(OfferCount + 1) }

\* Runs taken up at RunMark.  (1) A player one xp short of the next level
\* with one upgrade available, at 1 health, with a Basic enemy, a Health
\* pickup and an XP pickup around.  (2) A fresh player with a bullet in
\* flight and a wounded Exploder around.  (3) A fresh player with a Ranged
\* enemy and one of its bullets around.  The last menu shown was the start
\* menu.
CombatRuns(bal) ==
    LET fresh == reset(applyBalance(PlayerNew, bal), bal)
    IN  { [ player |-> [AlmostLevelled(1, bal) EXCEPT !.health = 1],
            enemies |-> <<EnemyNew(Basic, bal.initialSpawnDelay, bal)>>,
            bullets |-> <<>>, enemyBullets |-> <<>>,
            pickups |-> <<PickupNew(Health, 1), PickupNew(XP, 1)>>,
            buttons |-> MenuRender({}, "StartMenu", 0) ] }
        \cup
        { [ player |-> fresh,
            enemies |-> << [EnemyNew(Exploder, bal.initialSpawnDelay, bal)
                              EXCEPT !.hp1000 = WoundedHp(@, fresh.damage1000)] >>,
            bullets |-> <<BulletNew(fresh)>>, enemyBullets |-> <<>>,
            pickups |-> <<>>,
            buttons |-> MenuRender({}, "StartMenu", 0) ],
          [ player |-> fresh,
            enemies |-> <<EnemyNew(Ranged, bal.initialSpawnDelay, bal)>>,
            bullets |-> <<>>, enemyBullets |-> <<EnemyBulletNew(bal)>>,
            pickups |-> <<>>,
            buttons |-> MenuRender({}, "StartMenu", 0) ] }

\* the Game after construction (Normal difficulty, nothing rendered yet), or
\* a run taken up at RunMark: a combat run at any difficulty or a level-up
\* run at the default difficulty
InitGame ==
    /\ enemyCount = 0
    /\ bossLog = NoBossLog
    /\ sinceKill = NoKillYet
    /\ sinceContact = <<>>
    /\ camera = CameraNew
    /\ lastTime = 0
    /\ call = NoCall
    /\ deathSignals = 0
    /\ gameOvers = 0
    /\ upgradeChoices = <<>>
    /\ saveData = [bestTime |-> 0, bestKills |-> 0, bestLevel |-> 0]
    /\ \/ /\ state = "StartMenu"
          /\ difficulty = 1
          /\ selectedDifficulty = 1
          /\ player = applyBalance(PlayerNew, getBalanceConfig(1))
          /\ spawner = SpawnerNew
          /\ enemies = <<>> /\ bullets = <<>>
          /\ enemyBullets = <<>> /\ pickups = <<>>
          /\ menuButtons = {}
       \/ /\ state = "Playing"
          /\ difficulty \in Difficulties
          /\ selectedDifficulty = difficulty
          /\ spawner = SpawnerMidRun
          /\ \E run \in CombatRuns(getBalanceConfig(difficulty))
                       \cup (IF difficulty = 1
                             THEN LevelUpRuns(getBalanceConfig(difficulty))
                             ELSE {}) :
                /\ player = run.player
                /\ enemies = run.enemies
                /\ bullets = run.bullets
                /\ enemyBullets = run.enemyBullets
                /\ pickups = run.pickups
                /\ menuButtons = run.buttons

SpecGame == InitGame /\ [][NextGame]_vars

----------------------------------------------------------------------------
(* Properties of the orchestrator                                          *)

\* C3 (as claimed): in every state of the orchestrator the player's health
\* is within 0..maxHealth and the player is dead exactly if its health is 0,
\* also after the health of the tick's pickups was applied.
C3_HealthInvariant ==
    /\ 0 <= player.health
    /\ player.health <= player.maxHealth
    /\ ~player.alive <=> player.health = 0

\* the transitions of the state diagram
DiagramTransitions ==
    { <<"StartMenu", "Playing">>, <<"Playing", "Paused">>,
      <<"Paused", "Playing">>, <<"Playing", "LevelUp">>,
      <<"LevelUp", "Playing">>, <<"Playing", "GameOver">>,
      <<"GameOver", "StartMenu">>, <<"GameOver", "Playing">>,
      <<"StartMenu", "HowToPlay">>, <<"HowToPlay", "StartMenu">> }

NotInPlaying(c) == c.op = "frame" /\ (c.ret.from # "Playing" \/ c.ret.focusLost)

\* C5 (as claimed): a tick that does not run in state Playing and does not
\* start a new run leaves player, enemies, bullets, pickups and the
\* spawner's elapsed time and spawn timer unchanged.
C5_FrozenOutsidePlaying ==
    [][NotInPlaying(call') /\ ~call'.ret.started =>
         /\ player' = player
         /\ UNCHANGED <<enemies, bullets, enemyBullets, pickups>>
         /\ spawner'.elapsedTime = spawner.elapsedTime
         /\ spawner'.spawnTimer = spawner.spawnTimer]_vars

\* C5 (amended): such a tick leaves enemies, bullets, pickups and the
\* spawner's elapsed time and spawn timer unchanged; it leaves the player
\* unchanged too, unless it begins in LevelUp and selects an upgrade: then
\* the player is changed by applyUpgrade of one of the offered upgrades and
\* the state becomes Playing.
C5_FrozenButForUpgrade ==
    [][NotInPlaying(call') /\ ~call'.ret.started =>
         /\ UNCHANGED <<enemies, bullets, enemyBullets, pickups>>
         /\ spawner'.elapsedTime = spawner.elapsedTime
         /\ spawner'.spawnTimer = spawner.spawnTimer
         /\ \/ player' = player
            \/ /\ state = "LevelUp" /\ state' = "Playing"
               /\ \E i \in DOMAIN upgradeChoices :
                     player' = applyUpgrade(player, upgradeChoices[i],
                                            getBalanceConfig(difficulty))]_vars

\* an upgrade was selected on the level-up screen of a run with enemies or
\* pickups around
C5_Witness ==
    /\ call.op = "frame" /\ call.ret.from = "LevelUp"
    /\ state = "Playing"
    /\ Len(enemies) + Len(pickups) > 0

\* C6 (as claimed): a tick that begins in Playing with the focus lost ends
\* in Paused and runs no entity update, spawner step or collision
\* resolution, whatever else was pressed or clicked.
C6_FocusLossPauses ==
    [][/\ call'.op = "frame" /\ call'.ret.from = "Playing"
       /\ call'.ret.focusLost
       => state' = "Paused" /\ ~call'.ret.played]_vars

\* C7: a Playing tick in which the player dies ends in GameOver, also when
\* the tick levels the player up, and enterGameOver runs once in a run:
\* exactly in the tick of the death.
C7_DeathEndsRun ==
    [][call'.op = "frame" =>
         /\ gameOvers' <= 1
         /\ player.alive /\ ~player'.alive =>
               state' = "GameOver" /\ gameOvers' = 1
         /\ gameOvers' # gameOvers /\ ~call'.ret.started =>
               player.alive /\ ~player'.alive]_vars

\* the player died in the tick that levelled it up, with an upgrade on offer
C7_Witness ==
    /\ call.op = "frame" /\ call.ret.played /\ call.ret.leveledUp
    /\ upgradeChoices # <<>>
    /\ ~player.alive
    /\ state = "GameOver"
    /\ gameOvers = 1

\* C9: a tick that levels the player up while k upgrades are below their
\* maximum offers min(3, k) pairwise distinct upgrades below their maximum
\* and, the player being alive, ends in LevelUp if k > 0 and in Playing with
\* nothing offered if k = 0.
C9_OfferedUpgrades ==
    [][call'.op = "frame" /\ call'.ret.leveledUp =>
         LET k == Len(Available(player))
             offered == upgradeChoices'
         IN  /\ Len(offered) = Min(3, k)
             /\ \A i, j \in DOMAIN offered : i # j => offered[i] # offered[j]
             /\ \A i \in DOMAIN offered :
                   /\ offered[i] \in UpgradeIds
                   /\ player'.upgradeLevels[offered[i]] < maxLevel(offered[i])
             /\ player'.alive =>
                   state' = IF k > 0 THEN "LevelUp" ELSE "Playing"
             /\ k = 0 => state' # "LevelUp"]_vars

\* three of four available upgrades are on offer
C9_Witness ==
    /\ call.op = "frame" /\ call.ret.leveledUp
    /\ state = "LevelUp"
    /\ Len(Available(player)) = 4
    /\ Len(upgradeChoices) = 3

C11_OneBossPerLevel ==
    \A L \in 1..10 : bossLog.bosses[L] <= 1

\* an update call at a danger level whose boss was emitted by an earlier call
\* returns no boss
C11_Witness ==
    /\ call.op = "spawnerUpdate"
    /\ ~call.ret.boss
    /\ bossLog.bosses[getDangerLevel(spawner, Bal)] = 1

\* C12: in a run of updates with dt in [0, MAX_DT] no danger level is
\* skipped, and every danger level L computed so far that is a multiple of
\* bossInterval has had its boss exactly once, from the first call that
\* computed L on; the other levels have had none.
C12_EveryBossLevelServed ==
    /\ \A L \in 1..10 :
          (L \in bossLog.seen) => \A K \in 1..L : K \in bossLog.seen
    /\ \A L \in 1..10 :
          bossLog.bosses[L] =
             IF L \in bossLog.seen /\ L >= Bal.bossInterval
                   /\ L % Bal.bossInterval = 0
             THEN 1 ELSE 0

\* the call that first computed a boss level returned its boss, at dt > 0
\* and with no regular spawn due
C12_Witness ==
    /\ call.op = "spawnerUpdate"
    /\ call.ret.boss
    /\ call.ret.regular = 0
    /\ spawner.spawnTimer > 0
    /\ bossLog.bosses[getDangerLevel(spawner, Bal)] = 1

----------------------------------------------------------------------------
(* Specification of the bullets and the collision resolver: from a combat  *)
(* situation, any sequence of Bullet.update calls on the player's bullets  *)
(* and of Collision.checkAll calls, for any overlaps.  Dead entities are   *)
(* kept in their lists, so that an index names one entity throughout.  A   *)
(* Bullet.update that keeps the bullet within the bounds changes nothing   *)
(* of the bullet but its position, so two checkAll steps in a row are the  *)
(* resolver calls of two consecutive ticks.                                *)

\* bound: a bullet in flight has up to this many pierces left
MaxPierceLeft == 2

\* where a move can take a bullet: well inside the arena, outside the arena
\* but within the buffer, on the edge of the buffer, and one unit beyond it
\* on each side
EdgePositions ==
    { <<ARENA_WIDTH \div 2, ARENA_HEIGHT \div 2>>,
      <<-1, ARENA_HEIGHT \div 2>>,
      <<-BULLET_OOB_BUFFER, ARENA_HEIGHT + BULLET_OOB_BUFFER>>,
      <<ARENA_WIDTH + BULLET_OOB_BUFFER, -BULLET_OOB_BUFFER>>,
      <<-BULLET_OOB_BUFFER - 1, ARENA_HEIGHT \div 2>>,
      <<ARENA_WIDTH + BULLET_OOB_BUFFER + 1, ARENA_HEIGHT \div 2>>,
      <<ARENA_WIDTH \div 2, -BULLET_OOB_BUFFER - 1>>,
      <<ARENA_WIDTH \div 2, ARENA_HEIGHT + BULLET_OOB_BUFFER + 1>> }

\* an enemy that takes n more hits of the given damage
HitsLeft(e, n, damage1000) ==
    [e EXCEPT !.hp1000 = WoundedHp(@, damage1000) + (n - 1) * damage1000]

\* Combat situations.  (1) Two bullets of any pierce in flight towards a Tank
\* that takes three more hits and a Basic enemy that takes one.  (2) A
\* bullet in flight towards an Exploder that takes one more hit, with a
\* Basic enemy around; the player unhurt, or hurt a moment ago and
\* invulnerable.  (3) A player at health 1 with a Basic enemy and three
\* pickups around.
ResolverRuns(bal) ==
    LET fresh == reset(applyBalance(PlayerNew, bal), bal)
        shot(n) == [BulletNew(fresh) EXCEPT !.pierceLeft = n]
        foe(type) == EnemyNew(type, bal.initialSpawnDelay, bal)
    IN  { [ player |-> fresh,
            enemies |-> << HitsLeft(foe(Tank), 3, fresh.damage1000),
                           HitsLeft(foe(Basic), 1, fresh.damage1000) >>,
            bullets |-> <<shot(n1), shot(n2)>>,
            enemyBullets |-> <<>>, pickups |-> <<>> ] :
          n1 \in 0..MaxPierceLeft, n2 \in 0..MaxPierceLeft }
        \cup
        { [ player |-> p,
            enemies |-> << HitsLeft(foe(Exploder), 1, fresh.damage1000),
                           foe(Basic) >>,
            bullets |-> <<shot(0)>>,
            enemyBullets |-> <<>>, pickups |-> <<>> ] :
          p \in {fresh, takeDamage(fresh, 1, bal).p} }
        \cup
        { [ player |-> [fresh EXCEPT !.health = 1],
            enemies |-> <<foe(Basic)>>,
            bullets |-> <<>>, enemyBullets |-> <<>>,
            pickups |-> <<PickupNew(Health, 1), PickupNew(XP, 1),
                          PickupNew(XP, 2)>> ] }

InitResolver ==
    /\ state = "Playing"
    /\ difficulty \in Difficulties
    /\ selectedDifficulty = difficulty
    /\ spawner = SpawnerMidRun
    /\ enemyCount = 0
    /\ bossLog = NoBossLog
    /\ sinceKill = NoKillYet
    /\ sinceContact = <<>>
    /\ camera = CameraNew
    /\ lastTime = 0
    /\ \E run \in ResolverRuns(getBalanceConfig(difficulty)) :
          /\ player = run.player
          /\ enemies = run.enemies
          /\ bullets = run.bullets
          /\ enemyBullets = run.enemyBullets
          /\ pickups = run.pickups
    /\ menuButtons = MenuRender({}, "StartMenu", 0)
    /\ upgradeChoices = <<>>
    /\ saveData = [bestTime |-> 0, bestKills |-> 0, bestLevel |-> 0]
    /\ gameOvers = 0
    /\ call = NoCall
    /\ deathSignals = 0

\* Game.updatePlaying lines 310-312: Bullet.update of a bullet in flight,
\* taking it to the position <<x, y>>
R_BulletUpdate ==
    /\ player.alive
    /\ \E i \in DOMAIN bullets, pos \in EdgePositions :
         /\ bullets[i].alive
         /\ bullets' = [bullets EXCEPT
                          ![i] = BulletUpdate(@, OutOfArena(pos[1], pos[2]))]
         /\ call' = [op |-> "bulletUpdate",
                     ret |-> [bullet |-> i, x |-> pos[1], y |-> pos[2]]]
    /\ UNCHANGED <<state, difficulty, player, spawner, enemyCount, enemies,
                   enemyBullets, pickups, menuAndSave, deathSignals, bossLog, sinceKill,
                   sinceContact, camera, lastTime>>

\* Game.updatePlaying line 346: Collision.checkAll on the lists as they are,
\* for any overlaps of the living entities (the dead are swept at the end of
\* every tick, and an enemy whose contact cooldown runs is passed over by
\* check 3); call.ret keeps the overlaps of the bullets, of the
\* explosions and of the pickups, whether anything else touched the player,
\* and the result
R_CheckAll ==
    /\ player.alive
    /\ \E E \in {{ e \in DOMAIN enemies : enemies[e].alive }} :
       \E bh \in [DOMAIN bullets -> SeqsNoDup(E)],
          eb \in SUBSET (DOMAIN enemyBullets),
          c \in SeqsNoDup({ e \in E : enemies[e].contactCooldown <= 0 }),
          bl \in SUBSET { e \in E : enemies[e].type = Exploder },
          pk \in SUBSET (DOMAIN pickups) :
         /\ \A b \in DOMAIN bh : ~bullets[b].alive => bh[b] = <<>>
         /\ \A b \in eb : enemyBullets[b].alive
         /\ \A k \in pk : pickups[k].alive
         /\ \A i \in DOMAIN c : enemies[c[i]].type = Exploder => c[i] \in bl
         /\ \E ov \in {[bulletHits |-> bh, enemyBulletHits |-> eb,
                         contacts |-> c, blasts |-> bl, pickupHits |-> pk]} :
            \E st \in {checkAll(player, enemies, bullets, enemyBullets,
                                pickups, ov, Bal)} :
               /\ player' = st.player
               /\ enemies' = st.enemies
               /\ bullets' = st.bullets
               /\ enemyBullets' = st.enemyBullets
               /\ pickups' = st.pickups
               /\ deathSignals' = deathSignals + st.deaths
               /\ call' = [op |-> "checkAll",
                           ret |-> [bulletHits |-> bh, blasts |-> bl,
                                    pickupHits |-> pk,
                                    touched |-> eb # {} \/ c # <<>>,
                                    enemyHitPositions |-> st.enemyHitPositions,
                                    enemiesKilled |-> st.enemiesKilled,
                                    exploderDeaths |-> st.exploderDeaths,
                                    xpGained |-> st.xpGained,
                                    healthGained |-> st.healthGained]]
    /\ UNCHANGED <<state, difficulty, spawner, enemyCount, menuAndSave,
                   bossLog, sinceKill, sinceContact, camera, lastTime>>

NextResolver == R_BulletUpdate \/ R_CheckAll

SpecResolver == InitResolver /\ [][NextResolver]_vars

\* the entries of result.enemyHitPositions that bullet b made
HitsBy(hits, b) == SelectSeq(hits, LAMBDA h : h.bullet = b)

\* the enemies of the query of bullet b that are alive when the bullet comes
\* to them: alive at the call, and not killed by a bullet checked before b
Reached(b) ==
    SelectSeq(call'.ret.bulletHits[b],
              LAMBDA e : /\ enemies[e].alive
                         /\ \/ enemies'[e].alive
                            \/ \E i \in DOMAIN call'.ret.enemyHitPositions :
                                  /\ call'.ret.enemyHitPositions[i].enemy = e
                                  /\ call'.ret.enemyHitPositions[i].bullet >= b)

\* C13: a player bullet's pierceLeft never increases and never becomes
\* negative, and it decreases only in a Collision.checkAll call in which the
\* bullet overlaps an alive enemy, by at most one per enemy hit.
C13_PierceOnlySpentOnHits ==
    [][\A b \in DOMAIN bullets :
          /\ bullets'[b].pierceLeft >= 0
          /\ bullets'[b].pierceLeft <= bullets[b].pierceLeft
          /\ bullets'[b].pierceLeft < bullets[b].pierceLeft =>
                /\ call'.op = "checkAll"
                /\ \E i \in DOMAIN call'.ret.bulletHits[b] :
                      enemies[call'.ret.bulletHits[b][i]].alive
                /\ bullets[b].pierceLeft - bullets'[b].pierceLeft
                      <= Len(HitsBy(call'.ret.enemyHitPositions, b))]_vars

\* a bullet has spent a pierce on an enemy and flies on
C13_Witness ==
    /\ call.op = "checkAll"
    /\ \E b \in DOMAIN bullets :
          /\ bullets[b].alive
          /\ bullets[b].pierceLeft < MaxPierceLeft
          /\ Len(HitsBy(call.ret.enemyHitPositions, b)) = 1

\* C14: a player bullet becomes not-alive exactly when it hits an enemy
\* while its pierceLeft is 0 or its position leaves the arena extended by 50
\* units; its alive flag changes in no other step, and a hit with
\* pierceLeft > 0 leaves it alive.
C14_BulletDiesByHitOrExit ==
    [][\A b \in DOMAIN bullets :
          /\ ~bullets[b].alive => ~bullets'[b].alive
          /\ bullets[b].alive =>
               (~bullets'[b].alive <=>
                  \/ /\ call'.op = "bulletUpdate"
                     /\ call'.ret.bullet = b
                     /\ \/ call'.ret.x < -50
                        \/ call'.ret.x > ARENA_WIDTH + 50
                        \/ call'.ret.y < -50
                        \/ call'.ret.y > ARENA_HEIGHT + 50
                  \/ /\ call'.op = "checkAll"
                     /\ Len(HitsBy(call'.ret.enemyHitPositions, b))
                           = bullets[b].pierceLeft + 1)
          /\ (call'.op = "checkAll" /\ bullets[b].alive) =>
                Len(HitsBy(call'.ret.enemyHitPositions, b))
                   = Min(Len(Reached(b)), bullets[b].pierceLeft + 1)]_vars

\* a move has taken a bullet one unit beyond the buffer and the bullet is
\* dead
C14_Witness ==
    /\ call.op = "bulletUpdate"
    /\ call.ret.x = -51
    /\ ~bullets[call.ret.bullet].alive

\* C15: a player bullet with pierceLeft = 1 that overlaps two alive enemies
\* of one grid query damages both: pierceLeft is 0 after the first hit, the
\* bullet is not-alive after the second whether or not it kills, and every
\* enemy whose hp reaches 0 is in enemiesKilled.
C15_PierceOneHitsTwo ==
    [][call'.op = "checkAll" =>
         /\ \A b \in DOMAIN bullets :
               (bullets[b].alive /\ bullets[b].pierceLeft = 1
                  /\ Len(Reached(b)) >= 2) =>
                  /\ HitsBy(call'.ret.enemyHitPositions, b)
                        = << [bullet |-> b, enemy |-> Reached(b)[1]],
                             [bullet |-> b, enemy |-> Reached(b)[2]] >>
                  /\ bullets'[b].pierceLeft = 0
                  /\ ~bullets'[b].alive
         /\ \A e \in DOMAIN enemies :
               LET hits == SelectSeq(call'.ret.enemyHitPositions,
                                     LAMBDA h : h.enemy = e)
                   kills == SelectSeq(call'.ret.enemiesKilled,
                                      LAMBDA k : k = e)
               IN  /\ \A i \in DOMAIN hits :
                         bullets[hits[i].bullet].damage1000
                            = bullets[hits[1].bullet].damage1000
                   /\ enemies'[e].hp1000 =
                         enemies[e].hp1000
                           - (IF hits = <<>> THEN 0
                              ELSE Len(hits) * bullets[hits[1].bullet].damage1000)
                   /\ Len(kills) =
                         IF enemies[e].alive /\ enemies'[e].hp1000 <= 0
                         THEN 1 ELSE 0]_vars

\* a bullet has hit two enemies in one call, the second of which survives,
\* and is dead with no pierce left
C15_Witness ==
    /\ call.op = "checkAll"
    /\ \E b \in DOMAIN bullets :
          LET hits == HitsBy(call.ret.enemyHitPositions, b)
          IN  /\ Len(hits) = 2
              /\ enemies[hits[2].enemy].alive
              /\ ~bullets[b].alive
              /\ bullets[b].pierceLeft = 0

\* C16: pierce is spent per distinct enemy: a bullet that stays overlapped
\* with a surviving enemy over consecutive ticks neither damages that enemy
\* again nor spends pierce on it again.  Two Collision.checkAll calls in a
\* row are the collision passes of two consecutive ticks; no hit of the
\* second repeats a bullet and enemy of the first.
C16_PiercePerDistinctEnemy ==
    [][(call.op = "checkAll" /\ call'.op = "checkAll") =>
          \A i \in DOMAIN call'.ret.enemyHitPositions :
             \A j \in DOMAIN call.ret.enemyHitPositions :
                call'.ret.enemyHitPositions[i] # call.ret.enemyHitPositions[j]]_vars

\* C17: the detonation of an exploder whose blast overlaps the living player
\* takes health from the player also while the player is invulnerable.
C17_BlastIgnoresInvulnerability ==
    [][(/\ call'.op = "checkAll"
        /\ player.alive
        /\ player.isInvuln
        /\ \E i \in DOMAIN call'.ret.exploderDeaths :
              call'.ret.exploderDeaths[i] \in call'.ret.blasts) =>
          player'.health < player.health]_vars

\* C18: an Exploder killed by a player bullet in a tick, with the living and
\* not invulnerable player inside its explosion radius, is recorded in
\* exploderDeaths and in enemiesKilled, and the player loses (at least) that
\* exploder's damage in that tick.
C18_ExploderKillHurtsPlayer ==
    [][(call'.op = "checkAll" /\ player.alive /\ ~player.isInvuln) =>
          \A e \in call'.ret.blasts :
             (/\ enemies[e].type = Exploder
              /\ enemies[e].alive
              /\ ~enemies'[e].alive) =>
                /\ \E i \in DOMAIN call'.ret.exploderDeaths :
                      call'.ret.exploderDeaths[i] = e
                /\ \E i \in DOMAIN call'.ret.enemiesKilled :
                      call'.ret.enemiesKilled[i] = e
                /\ player'.health
                      <= Max(0, player.health - EnemyDamage(Bal, Exploder))]_vars

\* the sum of the values of the pickups ps[k], k in S
RECURSIVE TotalValue(_, _)
TotalValue(ps, S) ==
    IF S = {}
    THEN 0
    ELSE LET k == CHOOSE k \in S : TRUE
         IN  ps[k].value + TotalValue(ps, S \ {k})

\* C19: in every Collision.checkAll call each alive pickup that overlaps the
\* player is marked not-alive and its value is added exactly once to
\* xpGained (XP) or healthGained (Health), whether or not the player died in
\* the call; the other pickups are unchanged.
C19_PickupsCollectedAliveOrNot ==
    [][call'.op = "checkAll" =>
         LET got == { k \in call'.ret.pickupHits : pickups[k].alive }
         IN  /\ pickups' = [k \in DOMAIN pickups |->
                              IF k \in got
                              THEN [pickups[k] EXCEPT !.alive = FALSE]
                              ELSE pickups[k]]
             /\ call'.ret.xpGained =
                   TotalValue(pickups, { k \in got : pickups[k].type = XP })
             /\ call'.ret.healthGained =
                   TotalValue(pickups, { k \in got : pickups[k].type = Health })]_vars

\* the player died in a call that collected a Health pickup and one of the
\* two XP pickups
C19_Witness ==
    /\ call.op = "checkAll"
    /\ ~player.alive
    /\ call.ret.healthGained = 1
    /\ call.ret.xpGained = 2
    /\ \E k \in DOMAIN pickups : pickups[k].alive

----------------------------------------------------------------------------
(* Specification of the kill combo of a Player: Game.updatePlaying calls   *)
(* Player.update once a tick with the clamped frame time and               *)
(* Player.registerKill once for each enemy killed in the tick.  sinceKill  *)
(* adds up the frame times of the update calls since the last kill.        *)

\* registerKill is not applied any more once the combo count is this high
MaxCombo == 3

InitCombo ==
    /\ InitPlayer

\* Player.update of a player who neither dashes nor shoots; the updates are
\* followed until the combo has been idle for more than comboTimeout + MAX_DT
K_Update ==
    /\ sinceKill <= Bal.comboTimeout + MAX_DT
    /\ \E dt \in DtSet, in \in {[dash |-> FALSE, shoot |-> FALSE]} :
         /\ player' = PlayerUpdate(player, dt, in).p
         /\ sinceKill' = IF sinceKill = NoKillYet THEN NoKillYet
                         ELSE sinceKill + dt
         /\ call' = [op |-> "update", ret |-> FALSE]
    /\ UNCHANGED <<state, difficulty, spawner, enemyCount, entityLists,
                   menuAndSave, bossLog, deathSignals,
                   sinceContact, camera, lastTime>>

K_RegisterKill ==
    /\ player.combo.count < MaxCombo
    /\ player' = registerKill(player, Bal)
    /\ sinceKill' = 0
    /\ call' = [op |-> "registerKill", ret |-> player'.combo.multiplier100]
    /\ UNCHANGED <<state, difficulty, spawner, enemyCount, entityLists,
                   menuAndSave, bossLog, deathSignals,
                   sinceContact, camera, lastTime>>

NextCombo == K_Update \/ K_RegisterKill

SpecCombo == InitCombo /\ [][NextCombo]_vars

\* C20: once Player.update has counted more than comboTimeout since the
\* last kill, combo.count is 0 and combo.multiplier is 1, from the update
\* call in which the combo timer ran out; an update call that leaves the
\* timer running does not reset the count.
C20_ComboExpires ==
    [][call'.op = "update" =>
         /\ sinceKill' > Bal.comboTimeout =>
               /\ player'.combo.count = 0
               /\ player'.combo.multiplier100 = 100
         /\ (player.combo.timer > 0 /\ player'.combo.timer <= 0) =>
               /\ player'.combo.count = 0
               /\ player'.combo.multiplier100 = 100
               /\ sinceKill' >= Bal.comboTimeout
         /\ (sinceKill # NoKillYet /\ sinceKill' < Bal.comboTimeout) =>
               /\ player'.combo.timer = Bal.comboTimeout - sinceKill'
               /\ player'.combo.count = player.combo.count
               /\ player'.combo.count >= 1
               /\ player'.combo.multiplier100 = player.combo.multiplier100]_vars

\* the update call in which a combo of MaxCombo kills ran out, later than
\* comboTimeout after the last kill
C20_Witness ==
    /\ call.op = "update"
    /\ sinceKill > Bal.comboTimeout
    /\ sinceKill < Bal.comboTimeout + MAX_DT
    /\ player.combo.timer = Bal.comboTimeout - sinceKill
    /\ player.combo.count = 0

----------------------------------------------------------------------------
\* C21: after Spawner.reset no regular enemy is returned while the elapsed
\* time is below initialSpawnDelay; the first Spawner.update that takes the
\* elapsed time to or beyond it returns min(headroom, maxSpawnPerTick,
\* 1 + floor(elapsedTime / spawnCountDivisor)) regular enemies, which is 1
\* on Normal difficulty with an empty arena.
C21_FirstSpawnAfterDelay ==
    [][call'.op = "spawnerUpdate" =>
         /\ spawner'.elapsedTime < Bal.initialSpawnDelay =>
               call'.ret.regular = 0
         /\ (/\ spawner.elapsedTime < Bal.initialSpawnDelay
             /\ spawner'.elapsedTime >= Bal.initialSpawnDelay) =>
               /\ call'.ret.regular =
                     Min(Bal.maxEnemies - call'.ret.currentCount
                            - (IF call'.ret.boss THEN 1 ELSE 0),
                         Min(Bal.maxSpawnPerTick,
                             1 + (spawner'.elapsedTime
                                    \div Bal.spawnCountDivisor)))
               /\ (difficulty = 1 /\ call'.ret.currentCount = 0) =>
                     call'.ret.regular = 1]_vars

\* the update of a Normal run that took the elapsed time from below 2 s
\* past 2 s and returned the first enemy
C21_Witness ==
    /\ call.op = "spawnerUpdate"
    /\ difficulty = 1
    /\ call.ret.currentCount = 0
    /\ call.ret.regular = 1
    /\ spawner.elapsedTime > Bal.initialSpawnDelay
    /\ spawner.elapsedTime < Bal.initialSpawnDelay + MAX_DT
    /\ enemyCount = 1

----------------------------------------------------------------------------
(* Specification of the orchestrator with its entity collections at their  *)
(* caps: frames of updatePlaying in runs whose bullet, enemy-bullet and    *)
(* pickup lists are full or nearly so.                                     *)

\* bound: the lists of a run start at most this many entries below their caps
CapGap == 2

\* bound: a run is explored for this many MAX_DT of play
MaxCapTicks == 1

\* the most entries one frame of these runs pushes to a list: three bullets
\* of a spread shot, two enemy bullets, an XP and a Health pickup for each of
\* two kills
MostPushed == 4

\* Runs taken up at RunMark with every list gap entries below its cap.  The
\* player has the first level of Spread Shot or none and is ready to fire;
\* the first bullet pierces once; two Ranged enemies are about to fire and
\* two Basic enemies take one more hit.
CapRuns(bal) ==
    LET fresh == reset(applyBalance(PlayerNew, bal), bal)
        foe(type) == EnemyNew(type, bal.initialSpawnDelay, bal)
        archer == [foe(Ranged) EXCEPT !.shootTimer = MAX_DT]
        prey == [foe(Basic) EXCEPT !.hp1000 = WoundedHp(@, fresh.damage1000)]
    IN  { [ player |-> p,
            enemies |-> <<archer, archer, prey, prey>>,
            bullets |-> [i \in 1..(MAX_BULLETS - gap) |->
                           IF i = 1 THEN [BulletNew(p) EXCEPT !.pierceLeft = 1]
                           ELSE BulletNew(p)],
            enemyBullets |-> [i \in 1..(MAX_ENEMY_BULLETS - gap) |->
                                EnemyBulletNew(bal)],
            pickups |-> [i \in 1..(MAX_PICKUPS - gap) |-> PickupNew(XP, 1)] ] :
          gap \in 0..CapGap,
          p \in {fresh, [applyUpgrade(fresh, SpreadShot, bal)
                           EXCEPT !.level = @ + 1]} }

\* runs at the default difficulty: the caps are the same at every difficulty
InitCaps ==
    /\ state = "Playing"
    /\ difficulty = 1
    /\ selectedDifficulty = difficulty
    /\ spawner = SpawnerMidRun
    /\ enemyCount = 0
    /\ bossLog = NoBossLog
    /\ sinceKill = NoKillYet
    /\ sinceContact = <<>>
    /\ camera = CameraNew
    /\ lastTime = 0
    /\ \E run \in CapRuns(getBalanceConfig(difficulty)) :
          /\ player = run.player
          /\ enemies = run.enemies
          /\ bullets = run.bullets
          /\ enemyBullets = run.enemyBullets
          /\ pickups = run.pickups
    /\ menuButtons = MenuRender({}, "StartMenu", 0)
    /\ upgradeChoices = <<>>
    /\ saveData = [bestTime |-> 0, bestKills |-> 0, bestLevel |-> 0]
    /\ gameOvers = 0
    /\ call = NoCall
    /\ deathSignals = 0

\* A frame of Game.loop in Playing.  Its inputs: fire held or not; the
\* Ranged enemies in range, all or none; the first bullet leaving the arena
\* or not; the Basic enemies the first bullet overlaps, in any query order;
\* the killed enemies that drop health.  Nothing touches the player.
CapFrame ==
    /\ state = "Playing"
    /\ spawner.elapsedTime + MAX_DT <= RunMark + MaxCapTicks * MAX_DT
    /\ \E shoot \in BOOLEAN,
          ir \in {{}, { e \in 1..Len(enemies) : enemies[e].type = Ranged }},
          la \in SUBSET {1} :
       \E sp \in {SpawnerUpdate(spawner, MAX_DT, Len(enemies),
                                getBalanceConfig(difficulty))} :
       \E ty \in [1..sp.regular -> chooseEnemyType(sp.s, getBalanceConfig(difficulty))] :
       \E q \in SeqsNoDup({ e \in 1..Len(enemies) :
                              enemies[e].alive /\ enemies[e].type = Basic }) :
          /\ (q # <<>>) => (bullets[1].alive /\ la = {})
          /\ \E dr \in SUBSET { q[i] : i \in DOMAIN q } :
             \E in \in {[NoInput EXCEPT
                           !.shoot = shoot, !.inRange = ir, !.leftArena = la,
                           !.types = ty, !.drops = dr,
                           !.ov.bulletHits =
                               [b \in 1..(MAX_BULLETS + MostPushed) |->
                                   IF b = 1 THEN q ELSE <<>>]]} :
             \E g \in {GameUpdate(Game, in)} :
                /\ state' = g.state
                /\ player' = g.player
                /\ difficulty' = g.difficulty
                /\ spawner' = g.spawner
                /\ enemies' = g.enemies
                /\ bullets' = g.bullets
                /\ enemyBullets' = g.enemyBullets
                /\ pickups' = g.pickups
                /\ menuButtons' = Render(menuButtons, g)
                /\ selectedDifficulty' = g.selectedDifficulty
                /\ upgradeChoices' = g.upgradeChoices
                /\ saveData' = g.saveData
                /\ gameOvers' = g.gameOvers
                /\ deathSignals' = g.deathSignals
                /\ call' = [op |-> "capFrame", ret |-> in]
    /\ UNCHANGED <<enemyCount, bossLog, sinceKill, sinceContact, camera, lastTime>>

NextCaps == CapFrame

SpecCaps == InitCaps /\ [][NextCaps]_vars

\* the list with the MostPushed entries after its first taken out
WithRoom(arr) == <<arr[1]>> \o SubSeq(arr, MostPushed + 2, Len(arr))

\* C22: the bullet list never holds more than MAX_BULLETS entries, the
\* enemy-bullet list never more than MAX_ENEMY_BULLETS and the pickup list
\* never more than MAX_PICKUPS; a frame whose additions are dropped at a cap
\* leaves everything else as the same frame leaves it when the lists have
\* room, and each list as long as the cap allowed (less the first bullet if
\* the frame swept it).
C22_EntityCaps ==
    [][call'.op = "capFrame" =>
         \E room \in {GameUpdate([Game EXCEPT
                                     !.bullets = WithRoom(@),
                                     !.enemyBullets = WithRoom(@),
                                     !.pickups = WithRoom(@)],
                                 call'.ret)},
            swept \in {IF \/ call'.ret.leftArena # {}
                          \/ Len(call'.ret.ov.bulletHits[1])
                                > bullets[1].pierceLeft
                       THEN 1 ELSE 0} :
             /\ Len(bullets') <= 500
             /\ Len(enemyBullets') <= 200
             /\ Len(pickups') <= 300
             /\ Len(bullets') =
                   Min(500 - swept, Len(room.bullets) + MostPushed)
             /\ Len(enemyBullets') =
                   Min(200, Len(room.enemyBullets) + MostPushed)
             /\ Len(pickups') = Min(300, Len(room.pickups) + MostPushed)
             /\ state' = room.state
             /\ player' = room.player
             /\ enemies' = room.enemies
             /\ spawner' = room.spawner
             /\ deathSignals' = room.deathSignals
             /\ gameOvers' = room.gameOvers
             /\ saveData' = room.saveData
             /\ upgradeChoices' = room.upgradeChoices]_vars

\* a frame that began with all three lists full, in which the player fired,
\* both Ranged enemies fired and an enemy was killed, and that ended with
\* the lists still full
C22_Witness ==
    /\ call.op = "capFrame"
    /\ call.ret.shoot
    /\ call.ret.inRange # {}
    /\ call.ret.leftArena = {}
    /\ Len(call.ret.ov.bulletHits[1]) = 1
    /\ Len(enemies) = 3
    /\ player.shootTimer > 0
    /\ Len(bullets) = 500
    /\ Len(enemyBullets) = 200
    /\ Len(pickups) = 300

----------------------------------------------------------------------------
\* C23: whenever the player's isDashing flag is true the player is
\* invulnerable, and a Player.takeDamage call made while a dash is in
\* progress takes no health and reports no death.
C23_DashIsInvulnerable ==
    [][/\ player'.isDashing => (player'.isInvuln /\ player'.invulnTimer > 0)
       /\ (call'.op = "takeDamage" /\ player.isDashing) =>
             /\ player'.health = player.health
             /\ player'.alive = player.alive
             /\ ~call'.ret]_vars

\* takeDamage was called on an unhurt player in the middle of a dash
C23_Witness ==
    /\ call.op = "takeDamage"
    /\ player.isDashing
    /\ player.dashTimer < DASH_DURATION
    /\ player.health = player.maxHealth

----------------------------------------------------------------------------
----------------------------------------------------------------------------
(* Specification of contact damage: Game.updatePlaying calls Enemy.update  *)
(* on every enemy with the clamped frame time and then                     *)
(* Collision.checkAll; any enemies may touch the player, whether their     *)
(* contact cooldown runs or not.  sinceContact adds up, for each enemy,    *)
(* the frame times of its update calls since its last contact hit.         *)

\* no contact hit by this enemy yet
NoContactYet == -1

\* a fresh player with a Basic and a Fast enemy around, out of range of no
\* weapon
ContactRuns(bal) ==
    { [ player |-> reset(applyBalance(PlayerNew, bal), bal),
        enemies |-> << EnemyNew(Basic, bal.initialSpawnDelay, bal),
                       EnemyNew(Fast, bal.initialSpawnDelay, bal) >> ] }

InitContact ==
    /\ state = "Playing"
    /\ difficulty \in Difficulties
    /\ selectedDifficulty = difficulty
    /\ spawner = SpawnerMidRun
    /\ enemyCount = 0
    /\ bossLog = NoBossLog
    /\ sinceKill = NoKillYet
    /\ \E run \in ContactRuns(getBalanceConfig(difficulty)) :
          /\ player = run.player
          /\ enemies = run.enemies
          /\ sinceContact = [e \in DOMAIN run.enemies |-> NoContactYet]
          /\ camera = CameraNew
          /\ lastTime = 0
    /\ bullets = <<>>
    /\ enemyBullets = <<>>
    /\ pickups = <<>>
    /\ menuButtons = MenuRender({}, "StartMenu", 0)
    /\ upgradeChoices = <<>>
    /\ saveData = [bestTime |-> 0, bestKills |-> 0, bestLevel |-> 0]
    /\ gameOvers = 0
    /\ call = NoCall
    /\ deathSignals = 0

\* Game.updatePlaying lines 292-308: Enemy.update of every enemy; the updates
\* are followed until an enemy has stayed off the player for more than
\* enemyContactCooldown + MAX_DT
T_EnemyUpdate ==
    /\ player.alive
    /\ \A e \in DOMAIN enemies :
          sinceContact[e] <= Bal.enemyContactCooldown + MAX_DT
    /\ \E dt \in DtSet :
         /\ enemies' = [e \in DOMAIN enemies |->
                          EnemyUpdate(enemies[e], dt, FALSE, Bal).e]
         /\ sinceContact' = [e \in DOMAIN enemies |->
                               IF sinceContact[e] = NoContactYet
                               THEN NoContactYet
                               ELSE sinceContact[e] + dt]
         /\ call' = [op |-> "enemyUpdate", ret |-> dt]
    /\ UNCHANGED <<state, difficulty, player, spawner, enemyCount, bullets,
                   enemyBullets, pickups, menuAndSave, deathSignals, bossLog,
                   sinceKill, camera, lastTime>>

\* Game.updatePlaying line 346: Collision.checkAll with the enemies c
\* touching the player, in query order
T_CheckAll ==
    /\ player.alive
    /\ \E c \in SeqsNoDup({ e \in DOMAIN enemies : enemies[e].alive }) :
       \E ov \in {[bulletHits |-> <<>>, enemyBulletHits |-> {},
                   contacts |-> c, blasts |-> {}, pickupHits |-> {}]} :
       \E st \in {checkAll(player, enemies, bullets, enemyBullets, pickups,
                           ov, Bal)} :
          /\ player' = st.player
          /\ enemies' = st.enemies
          /\ deathSignals' = deathSignals + st.deaths
          /\ sinceContact' = [e \in DOMAIN enemies |->
                                IF st.enemies[e].contactCooldown
                                     # enemies[e].contactCooldown
                                THEN 0 ELSE sinceContact[e]]
          /\ call' = [op |-> "checkAll",
                      ret |-> [contacts |-> c, playerHit |-> st.playerHit,
                               since |-> sinceContact]]
    /\ UNCHANGED <<state, difficulty, spawner, enemyCount, bullets,
                   enemyBullets, pickups, menuAndSave, bossLog, sinceKill,
                   camera, lastTime>>

NextContact == T_EnemyUpdate \/ T_CheckAll

SpecContact == InitContact /\ [][NextContact]_vars

\* the enemies whose contact cooldown a step has reset
ContactHits == { e \in DOMAIN enemies :
                   enemies'[e].contactCooldown > enemies[e].contactCooldown }

\* C25: Collision.checkAll lets an enemy hit the player by contact only if
\* the enemy's contact cooldown has expired, and sets the cooldown of every
\* enemy that hits to enemyContactCooldown; so the enemy's update calls have
\* counted at least enemyContactCooldown since its previous contact hit.
C25_ContactCooldown ==
    [][call'.op = "checkAll" =>
         /\ \A e \in ContactHits :
               /\ enemies[e].contactCooldown <= 0
               /\ enemies'[e].contactCooldown = Bal.enemyContactCooldown
               /\ \E i \in DOMAIN call'.ret.contacts : call'.ret.contacts[i] = e
               /\ \/ sinceContact[e] = NoContactYet
                  \/ sinceContact[e] >= Bal.enemyContactCooldown
         /\ \A e \in DOMAIN enemies :
               enemies[e].contactCooldown > 0 => enemies'[e] = enemies[e]
         /\ (\A i \in DOMAIN call'.ret.contacts :
                enemies[call'.ret.contacts[i]].contactCooldown > 0) =>
               /\ player' = player
               /\ ~call'.ret.playerHit
         /\ (call'.ret.contacts # <<>>
               /\ enemies[call'.ret.contacts[1]].contactCooldown <= 0) =>
               /\ call'.ret.contacts[1] \in ContactHits
               /\ call'.ret.playerHit]_vars

\* an enemy has hit the player a second time, in the first call after its
\* cooldown had run out
C25_Witness ==
    /\ call.op = "checkAll"
    /\ \E e \in DOMAIN enemies :
          /\ sinceContact[e] = 0
          /\ enemies[e].contactCooldown = Bal.enemyContactCooldown
          /\ call.ret.since[e] >= Bal.enemyContactCooldown
          /\ call.ret.since[e] < Bal.enemyContactCooldown + MAX_DT


----------------------------------------------------------------------------
(* Spawn placement: Spawner.getSpawnPosition, the density check around it *)
(* and the camera whose view the placement is meant to avoid.  Positions   *)
(* are whole arena units; Math.random() is one of RandSteps evenly spaced  *)
(* fractions k / RandSteps of [0, 1).                                      *)

RandSteps == 4

MaxCluster == 6

SPAWN_BUFFER == 80

DENSITY_CHECK_RADIUS_SQ == 150 * 150

MAX_DENSITY_NEARBY == 5

clamp(val, min, max) ==
    IF val < min THEN min
    ELSE IF val > max THEN max
    ELSE val

\* min + Math.random() * (max - min) with Math.random() = k / RandSteps
randFloat(min, max, k) == min + (k * (max - min)) \div RandSteps

distSq(x1, y1, x2, y2) == (x2 - x1) * (x2 - x1) + (y2 - y1) * (y2 - y1)

\* the window sizes the canvas takes: two smaller than the arena and one
\* larger than it in both directions
Canvases == { DefaultCanvas, [w |-> 800, h |-> 600], [w |-> 3840, h |-> 2160] }

\* where the camera's smooth follow has brought it before the clamp: near
\* the player, who walks the whole arena
FollowedTo == { [x |-> x, y |-> y] : x \in {300, ARENA_WIDTH \div 2, 2700},
                                     y \in {200, ARENA_HEIGHT \div 2, 1800} }

\* CameraController.update lines 1244-1258 on the followed position (fx, fy)
CameraClamp(cam, fx, fy) ==
    [cam EXCEPT
       !.x = IF cam.w >= ARENA_WIDTH THEN ARENA_WIDTH \div 2
             ELSE clamp(fx, cam.w \div 2, ARENA_WIDTH - cam.w \div 2),
       !.y = IF cam.h >= ARENA_HEIGHT THEN ARENA_HEIGHT \div 2
             ELSE clamp(fy, cam.h \div 2, ARENA_HEIGHT - cam.h \div 2)]

\* Spawner.getSpawnPosition with edge the randInt(0, 3) draw and k the
\* randFloat draw
getSpawnPosition(camX, camY, viewW, viewH, edge, k) ==
    LET halfW == viewW \div 2
        halfH == viewH \div 2
        sx == IF edge = 0 THEN camX + randFloat(-halfW, halfW, k)
              ELSE IF edge = 1 THEN camX + halfW + SPAWN_BUFFER
              ELSE IF edge = 2 THEN camX + randFloat(-halfW, halfW, k)
              ELSE camX - halfW - SPAWN_BUFFER
        sy == IF edge = 0 THEN camY - halfH - SPAWN_BUFFER
              ELSE IF edge = 1 THEN camY + randFloat(-halfH, halfH, k)
              ELSE IF edge = 2 THEN camY + halfH + SPAWN_BUFFER
              ELSE camY + randFloat(-halfH, halfH, k)
    IN  [x |-> clamp(sx, 10, ARENA_WIDTH - 10),
         y |-> clamp(sy, 10, ARENA_HEIGHT - 10)]

\* the loop of Spawner.countNearby from enemy i on
RECURSIVE countNearbyFrom(_, _, _, _, _)
countNearbyFrom(x, y, foes, i, count) ==
    IF i > Len(foes) THEN count
    ELSE IF ~foes[i].alive THEN countNearbyFrom(x, y, foes, i + 1, count)
    ELSE IF distSq(x, y, foes[i].x, foes[i].y) < DENSITY_CHECK_RADIUS_SQ
         THEN IF count + 1 >= MAX_DENSITY_NEARBY THEN count + 1
              ELSE countNearbyFrom(x, y, foes, i + 1, count + 1)
         ELSE countNearbyFrom(x, y, foes, i + 1, count)

countNearby(x, y, foes) == countNearbyFrom(x, y, foes, 1, 0)

\* the density check that moves to a later candidate whenever it is no
\* more crowded than the best one
getSpawnPositionWithDensityCheck_LaterOnTies(cam, draws, foes) ==
    LET pos(i) == getSpawnPosition(cam.x, cam.y, cam.w, cam.h,
                                   draws[i].edge, draws[i].k)
        cnt(i) == countNearby(pos(i).x, pos(i).y, foes)
        at(i)  == [pos |-> pos(i), count |-> cnt(i), evaluated |-> i]
    IN  IF cnt(1) <= 1 THEN at(1)
        ELSE IF cnt(2) <= cnt(1)
             THEN IF cnt(2) <= 1 THEN at(2)
                  ELSE IF cnt(3) <= cnt(2) THEN at(3)
                       ELSE [at(2) EXCEPT !.evaluated = 3]
             ELSE IF cnt(3) <= cnt(1) THEN at(3)
                  ELSE [at(1) EXCEPT !.evaluated = 3]

\* Spawner.getSpawnPositionWithDensityCheck: draws are the (edge, k) draws
\* of its successive getSpawnPosition calls, evaluated how many it made
getSpawnPositionWithDensityCheck(cam, draws, foes) ==
    LET pos(i) == getSpawnPosition(cam.x, cam.y, cam.w, cam.h,
                                   draws[i].edge, draws[i].k)
        cnt(i) == countNearby(pos(i).x, pos(i).y, foes)
        at(i)  == [pos |-> pos(i), count |-> cnt(i), evaluated |-> i]
    IN  IF cnt(1) <= 1 THEN at(1)
        ELSE IF cnt(2) < cnt(1)
             THEN IF cnt(2) <= 1 THEN at(2)
                  ELSE IF cnt(3) < cnt(2) THEN at(3)
                       ELSE [at(2) EXCEPT !.evaluated = 3]
             ELSE IF cnt(3) < cnt(1) THEN at(3)
                  ELSE [at(1) EXCEPT !.evaluated = 3]

\* n alive enemies and a dead one, all standing on pos
Cluster(pos, n) ==
    [i \in 1..(n + 1) |-> [x |-> pos.x, y |-> pos.y, alive |-> i <= n]]

\* the cluster sizes tried: below, at and above the sparse limit of 1, and
\* at and above the saturation of the count
ClusterSizes == {1, 2, MaxCluster - 1, MaxCluster}

\* the middle draw of randFloat
MidDraw == RandSteps \div 2

\* enemies clustered on the middle of the top, right and bottom spawn lines
\* of the camera, sizes[e + 1] of them on edge e
Foes(cam, sizes) ==
    Cluster(getSpawnPosition(cam.x, cam.y, cam.w, cam.h, 0, MidDraw), sizes[1])
    \o Cluster(getSpawnPosition(cam.x, cam.y, cam.w, cam.h, 1, MidDraw), sizes[2])
    \o Cluster(getSpawnPosition(cam.x, cam.y, cam.w, cam.h, 2, MidDraw), sizes[3])

InitPlacement ==
    /\ state = "Playing"
    /\ difficulty = 1
    /\ player = reset(applyBalance(PlayerNew, getBalanceConfig(difficulty)),
                      getBalanceConfig(difficulty))
    /\ spawner = SpawnerNew
    /\ enemyCount = 0
    /\ InitRest
    /\ call = NoCall
    /\ deathSignals = 0
    /\ bossLog = NoBossLog
    /\ sinceKill = NoKillYet
    /\ sinceContact = <<>>
    /\ \E c \in Canvases :
          camera = [CameraNew EXCEPT !.w = c.w, !.h = c.h]
    /\ lastTime = 0

placementRest == <<state, player, difficulty, spawner, enemyCount, entityLists,
                   menuAndSave, deathSignals, bossLog, sinceKill, sinceContact,
                   lastTime>>

\* Game.updatePlaying lines 441-448: CameraController.update
Pl_CameraUpdate ==
    /\ \E f \in FollowedTo :
         /\ camera' = CameraClamp(camera, f.x, f.y)
         /\ call' = [op |-> "cameraUpdate", ret |-> f]
    /\ UNCHANGED placementRest

\* the camera has just been constructed or updated: placements are followed
\* one at a time from each camera position
CameraSettled == call.op \in {"none", "cameraUpdate"}

\* one Spawner.getSpawnPosition call with the camera and canvas of the game
Pl_GetSpawnPosition ==
    /\ CameraSettled
    /\ \E edge \in 0..3, k \in 0..(RandSteps - 1) :
         call' = [op |-> "getSpawnPosition",
                  ret |-> getSpawnPosition(camera.x, camera.y, camera.w,
                                           camera.h, edge, k)]
    /\ UNCHANGED <<camera, placementRest>>

\* one Spawner.getSpawnPositionWithDensityCheck call
Pl_DensityCheck ==
    /\ CameraSettled
    /\ \E e1 \in 0..3, e2 \in 0..3, e3 \in 0..3 :
       \E sizes \in [1..3 -> ClusterSizes] :
       \E draws \in {<<[edge |-> e1, k |-> MidDraw], [edge |-> e2, k |-> MidDraw],
                       [edge |-> e3, k |-> MidDraw]>>} :
         call' = [op |-> "getSpawnPositionWithDensityCheck",
                  ret |-> [draws |-> draws, sizes |-> sizes,
                           got |-> getSpawnPositionWithDensityCheck(
                                       camera, draws, Foes(camera, sizes))]]
    /\ UNCHANGED <<camera, placementRest>>

NextPlacement == Pl_CameraUpdate \/ Pl_GetSpawnPosition \/ Pl_DensityCheck

SpecPlacement == InitPlacement /\ [][NextPlacement]_vars

\* the position lies in the rectangle the camera shows
InView(cam, pos) ==
    /\ cam.x - cam.w \div 2 <= pos.x
    /\ pos.x <= cam.x + cam.w \div 2
    /\ cam.y - cam.h \div 2 <= pos.y
    /\ pos.y <= cam.y + cam.h \div 2

\* C26: every position Spawner.getSpawnPosition returns is inside the arena,
\* 10 <= x <= ARENA_WIDTH - 10 and 10 <= y <= ARENA_HEIGHT - 10, and outside
\* the rectangle the camera shows, for every camera position and view size
C26_SpawnInArenaOffScreen ==
    call.op = "getSpawnPosition" =>
        /\ 10 <= call.ret.x /\ call.ret.x <= ARENA_WIDTH - 10
        /\ 10 <= call.ret.y /\ call.ret.y <= ARENA_HEIGHT - 10
        /\ ~InView(camera, call.ret)


\* the candidate the i-th draw of a density check gives under the camera
Candidate(draws, i) ==
    getSpawnPosition(camera.x, camera.y, camera.w, camera.h,
                     draws[i].edge, draws[i].k)

\* the alive enemies of foes within the density radius of pos
Nearby(pos, foes) ==
    { j \in DOMAIN foes :
        /\ foes[j].alive
        /\ distSq(pos.x, pos.y, foes[j].x, foes[j].y) < DENSITY_CHECK_RADIUS_SQ }

\* C27: Spawner.getSpawnPositionWithDensityCheck evaluates at most 3
\* candidates and stops at the first one with at most 1 alive enemy within
\* the 150-unit radius; it returns the first candidate if that one has at
\* most 1 nearby, and otherwise the earliest of the evaluated candidates
\* with the smallest nearby count, counts being saturated at 5
C27_DensityCheckPicksSparsest ==
    call.op = "getSpawnPositionWithDensityCheck" =>
        \E foes \in {Foes(camera, call.ret.sizes)} :
        \E cnt \in {[i \in 1..3 |->
                       Min(MAX_DENSITY_NEARBY,
                           Cardinality(Nearby(Candidate(call.ret.draws, i),
                                              foes)))]} :
        \E sparse \in {{ i \in 1..3 : cnt[i] <= 1 }} :
        \E stop \in {IF sparse = {} THEN 3 ELSE Least(sparse)} :
        \E best \in {Least({ i \in 1..stop :
                               \A j \in 1..stop : cnt[i] <= cnt[j] })} :
            /\ call.ret.got.evaluated = stop
            /\ call.ret.got.evaluated <= 3
            /\ cnt[1] <= 1 => call.ret.got.pos = Candidate(call.ret.draws, 1)
            /\ call.ret.got.pos = Candidate(call.ret.draws, best)
            /\ call.ret.got.count = cnt[best]
            /\ call.ret.got.count <= MAX_DENSITY_NEARBY

\* a density check of three candidates whose first, with more than 5 enemies
\* around it, ties at the saturated count with the second and is kept
C27_Witness ==
    /\ call.op = "getSpawnPositionWithDensityCheck"
    /\ call.ret.got.evaluated = 3
    /\ call.ret.sizes[1] = MaxCluster
    /\ call.ret.sizes[2] = MaxCluster - 1
    /\ call.ret.draws[1].edge = 0
    /\ call.ret.draws[2].edge = 1
    /\ call.ret.got.count = MAX_DENSITY_NEARBY
    /\ call.ret.got.pos = Candidate(call.ret.draws, 1)
    /\ call.ret.got.pos # Candidate(call.ret.draws, 2)


----------------------------------------------------------------------------
(* The broad phase of Collision.checkAll: SpatialGrid over the enemies.    *)
(* Positions are whole arena units.                                        *)

SPATIAL_CELL_SIZE == 120

\* Math.ceil(a / b) for positive a and b
Ceil(a, b) == (a + b - 1) \div b

\* SpatialGrid constructor lines 750-760 as Collision calls it
GridCols == Ceil(ARENA_WIDTH, SPATIAL_CELL_SIZE) + 1

GridRows == Ceil(ARENA_HEIGHT, SPATIAL_CELL_SIZE) + 1

CellCount == GridCols * GridRows

EmptyCells == [k \in 0..(CellCount - 1) |-> <<>>]

getKey(col, row) == row * GridCols + col

\* the index SpatialGrid.insert would use without its clamps
insertKey_NoClamp(x, y) ==
    getKey(x \div SPATIAL_CELL_SIZE, y \div SPATIAL_CELL_SIZE)

\* the index of the cell SpatialGrid.insert pushes an entity at (x, y) to
insertKey(x, y) ==
    getKey(Max(0, Min(GridCols - 1, x \div SPATIAL_CELL_SIZE)),
           Max(0, Min(GridRows - 1, y \div SPATIAL_CELL_SIZE)))

\* SpatialGrid.insert of the entity numbered id; a push to an index outside
\* the array throws and stores nothing
insert(cells, id, entity) ==
    Then(insertKey(entity.x, entity.y), LAMBDA key :
         IF key \in DOMAIN cells
         THEN [cells EXCEPT ![key] = Append(@, id)]
         ELSE cells)

\* Collision.checkAll lines 872-878: the alive enemies from e on, inserted
\* in list order
RECURSIVE BuildGridFrom(_, _, _)
BuildGridFrom(cells, foes, e) ==
    IF e > Len(foes) THEN cells
    ELSE IF foes[e].alive
         THEN BuildGridFrom(insert(cells, e, foes[e]), foes, e + 1)
         ELSE BuildGridFrom(cells, foes, e + 1)

BuildGrid(foes) == BuildGridFrom(EmptyCells, foes, 1)

\* the cells c..maxCol of row r, then the rows after it up to maxRow, in
\* the order of the loops of SpatialGrid.queryCircle
RECURSIVE KeysFrom(_, _, _, _, _)
KeysFrom(r, c, minCol, maxCol, maxRow) ==
    IF r > maxRow THEN <<>>
    ELSE IF c > maxCol THEN KeysFrom(r + 1, minCol, minCol, maxCol, maxRow)
    ELSE <<getKey(c, r)>> \o KeysFrom(r, c + 1, minCol, maxCol, maxRow)

\* a query that reads the cell of the circle's centre only
queryKeys_CentreCellOnly(x, y, radius) == <<insertKey(x, y)>>

\* the indices SpatialGrid.queryCircle reads, in order
queryKeys(x, y, radius) ==
    LET minCol == Max(0, (x - radius) \div SPATIAL_CELL_SIZE)
        maxCol == Min(GridCols - 1, (x + radius) \div SPATIAL_CELL_SIZE)
        minRow == Max(0, (y - radius) \div SPATIAL_CELL_SIZE)
        maxRow == Min(GridRows - 1, (y + radius) \div SPATIAL_CELL_SIZE)
    IN  KeysFrom(minRow, minCol, minCol, maxCol, maxRow)

RECURSIVE Gather(_, _, _)
Gather(cells, keys, i) ==
    IF i > Len(keys) THEN <<>>
    ELSE (IF keys[i] \in DOMAIN cells THEN cells[keys[i]] ELSE <<>>)
         \o Gather(cells, keys, i + 1)

\* SpatialGrid.queryCircle: the entities of the cells read, in order
queryCircle(cells, x, y, radius) == Gather(cells, queryKeys(x, y, radius), 1)

circlesOverlap(x1, y1, r1, x2, y2, r2) ==
    distSq(x1, y1, x2, y2) <= (r1 + r2) * (r1 + r2)

\* Player.bulletRadius and Player.radius
BULLET_RADIUS == 4

PLAYER_RADIUS == 16

\* the radii of the smallest and the largest enemy (Fast, Boss)
EnemyRadii == {10, 40}

\* the buffer Collision.checkAll adds to the radius of its queries
QUERY_BUFFER == 50

\* how far beyond the buffer the probes of the grid go
FarOut == 500

\* the largest d with d * d * 2 <= c * c: two circles of combined radius c
\* still touch at the diagonal offset (d, d)
Diag(c) == CHOOSE d \in 0..c : 2 * d * d <= c * c /\ 2 * (d + 1) * (d + 1) > c * c

\* offsets of an enemy from a circle of radius r that put it on the circle,
\* just touching it (straight and diagonally) and just clear of it
Offsets(r) ==
    LET far == r + 40
        one == {0, r + 10, Diag(far), far, far + 1}
    IN  one \cup { -d : d \in one }

\* coordinates on the borders of cells, of the arena and of the buffer
\* around it
SpotsX == {-BULLET_OOB_BUFFER, -1, 0, SPATIAL_CELL_SIZE - 1, SPATIAL_CELL_SIZE,
           ARENA_WIDTH - 1, ARENA_WIDTH, ARENA_WIDTH + BULLET_OOB_BUFFER}

SpotsY == {-BULLET_OOB_BUFFER, 0, SPATIAL_CELL_SIZE, ARENA_HEIGHT - 1,
           ARENA_HEIGHT, ARENA_HEIGHT + BULLET_OOB_BUFFER}

InArena(x, y) == 0 <= x /\ x <= ARENA_WIDTH /\ 0 <= y /\ y <= ARENA_HEIGHT

\* the enemy list of one call: the enemy at the offset (dx, dy) from the
\* circle at (x, y), if that is in the arena, a dead enemy on the circle and
\* an alive one in the middle of the arena
FoesAround(x, y, dx, dy, er, alive) ==
    (IF InArena(x + dx, y + dy)
     THEN <<[x |-> x + dx, y |-> y + dy, radius |-> er, alive |-> alive]>>
     ELSE <<>>)
    \o (IF InArena(x, y)
        THEN <<[x |-> x, y |-> y, radius |-> er, alive |-> FALSE]>>
        ELSE <<>>)
    \o <<[x |-> ARENA_WIDTH \div 2, y |-> ARENA_HEIGHT \div 2, radius |-> er,
          alive |-> TRUE]>>

\* the insert keys of the alive enemies and what a query of the circle
\* (x, y, r) with the buffer reads, gets and finds overlapping
BroadPhase(foes, x, y, r) ==
    Then(queryCircle(BuildGrid(foes), x, y, r + QUERY_BUFFER), LAMBDA nearby :
         [foes     |-> foes,
          x        |-> x,
          y        |-> y,
          r        |-> r,
          inserted |-> { insertKey(foes[e].x, foes[e].y) :
                           e \in { e \in DOMAIN foes : foes[e].alive } },
          looked   |-> { k : k \in { queryKeys(x, y, r + QUERY_BUFFER)[i] :
                              i \in 1..Len(queryKeys(x, y, r + QUERY_BUFFER)) } },
          nearby   |-> nearby,
          hits     |-> { nearby[i] : i \in
                           { i \in 1..Len(nearby) :
                               /\ foes[nearby[i]].alive
                               /\ circlesOverlap(x, y, r, foes[nearby[i]].x,
                                                 foes[nearby[i]].y,
                                                 foes[nearby[i]].radius) } }])

InitGrid ==
    /\ state = "Playing"
    /\ difficulty = 1
    /\ player = reset(applyBalance(PlayerNew, getBalanceConfig(difficulty)),
                      getBalanceConfig(difficulty))
    /\ spawner = SpawnerNew
    /\ enemyCount = 0
    /\ InitRest
    /\ call = NoCall
    /\ deathSignals = 0
    /\ bossLog = NoBossLog
    /\ sinceKill = NoKillYet
    /\ sinceContact = <<>>
    /\ camera = CameraNew
    /\ lastTime = 0

gridRest == <<state, player, difficulty, spawner, enemyCount, entityLists,
              menuAndSave, deathSignals, bossLog, sinceKill, sinceContact,
              camera, lastTime>>

\* Collision.checkAll line 873 clears the grid, so no call depends on the
\* calls before it: one call is followed from the cleared grid
GridFresh == call.op = "none"

\* Collision.checkAll lines 872-893: the grid is built and queried for an
\* alive player bullet at (x, y), anywhere an alive bullet can be
Gr_BulletQuery ==
    /\ GridFresh
    /\ \E x \in SpotsX, y \in SpotsY :
       \E dx \in Offsets(BULLET_RADIUS), dy \in Offsets(BULLET_RADIUS) :
       \E er \in EnemyRadii, alive \in BOOLEAN :
         call' = [op |-> "bulletQuery",
                  ret |-> BroadPhase(FoesAround(x, y, dx, dy, er, alive),
                                     x, y, BULLET_RADIUS)]
    /\ UNCHANGED gridRest

\* Collision.checkAll lines 872-878 and 974-980: the grid is built and
\* queried for the player at (x, y), anywhere Player.update leaves it
Gr_PlayerQuery ==
    /\ GridFresh
    /\ \E x \in { Max(PLAYER_RADIUS, Min(ARENA_WIDTH - PLAYER_RADIUS, x)) :
                    x \in SpotsX },
          y \in { Max(PLAYER_RADIUS, Min(ARENA_HEIGHT - PLAYER_RADIUS, y)) :
                    y \in SpotsY } :
       \E dx \in Offsets(PLAYER_RADIUS), dy \in Offsets(PLAYER_RADIUS) :
       \E er \in EnemyRadii, alive \in BOOLEAN :
         call' = [op |-> "playerQuery",
                  ret |-> BroadPhase(FoesAround(x, y, dx, dy, er, alive),
                                     x, y, PLAYER_RADIUS)]
    /\ UNCHANGED gridRest

\* SpatialGrid.insert of one entity and SpatialGrid.queryCircle of one
\* circle, each anywhere up to FarOut beyond the arena and its buffer
Gr_Probe ==
    /\ GridFresh
    /\ \E ex \in SpotsX \cup {-FarOut, ARENA_WIDTH + FarOut},
          ey \in SpotsY \cup {-FarOut, ARENA_HEIGHT + FarOut} :
       \E x \in {ex, ARENA_WIDTH - ex}, y \in {ey, ARENA_HEIGHT - ey} :
       \E r \in {BULLET_RADIUS, PLAYER_RADIUS, FarOut} :
         call' = [op |-> "probe",
                  ret |-> BroadPhase(<<[x |-> ex, y |-> ey, radius |-> 40,
                                        alive |-> TRUE]>>, x, y, r)]
    /\ UNCHANGED gridRest

NextGrid == Gr_BulletQuery \/ Gr_PlayerQuery \/ Gr_Probe

SpecGrid == InitGrid /\ [][NextGrid]_vars

\* the alive enemies of a broad phase whose circle overlaps the queried one
Overlapping(q) ==
    { e \in DOMAIN q.foes :
        /\ q.foes[e].alive
        /\ circlesOverlap(q.x, q.y, q.r, q.foes[e].x, q.foes[e].y,
                          q.foes[e].radius) }

\* C28: for an alive player bullet within the arena and its 50-unit buffer,
\* and for the player, every alive enemy in the arena (radius <= 40) whose
\* circle overlaps is among the candidates SpatialGrid.queryCircle returns
\* for radius + 50, so the pairs found through the grid are the pairs found
\* by testing every alive enemy
C28_GridLosesNoCollision ==
    call.op \in {"bulletQuery", "playerQuery"} =>
        /\ \A e \in Overlapping(call.ret) :
              \E i \in 1..Len(call.ret.nearby) : call.ret.nearby[i] = e
        /\ call.ret.hits = Overlapping(call.ret)

\* a bullet on the arena's corner and an enemy touching it diagonally from
\* another cell
C28_Witness ==
    /\ call.op = "bulletQuery"
    /\ call.ret.x = ARENA_WIDTH
    /\ call.ret.y = SPATIAL_CELL_SIZE
    /\ \E e \in call.ret.hits :
          /\ call.ret.foes[e].x < call.ret.x
          /\ call.ret.foes[e].y < call.ret.y
          /\ insertKey(call.ret.foes[e].x, call.ret.foes[e].y)
               # insertKey(call.ret.x, call.ret.y)

\* C29: SpatialGrid.insert and SpatialGrid.queryCircle index the cell array
\* within 0..cols*rows-1 only, for every entity position and query circle,
\* negative, on the arena's edge or beyond it
C29_GridIndexInRange ==
    call.op \in {"bulletQuery", "playerQuery", "probe"} =>
        \A k \in call.ret.inserted \cup call.ret.looked :
            0 <= k /\ k <= GridCols * GridRows - 1

\* an entity left of and above the arena inserted, and a circle reaching
\* beyond the last column and the last row queried
C29_Witness ==
    /\ call.op = "probe"
    /\ call.ret.foes[1].x < 0
    /\ call.ret.foes[1].y < 0
    /\ call.ret.inserted = {0}
    /\ call.ret.x > GridCols * SPATIAL_CELL_SIZE
    /\ call.ret.y > GridRows * SPATIAL_CELL_SIZE
    /\ call.ret.r = FarOut
    /\ CellCount - 1 \in call.ret.looked


----------------------------------------------------------------------------
(* The sweep that ends a Playing tick: Game.removeDeadEntities on the four *)
(* entity lists, from every arrangement of alive and dead entries.         *)

MaxSwept == 6

\* the lists of length 0..n whose i-th entry is Entry(i), alive or dead
Arrangements(n, Entry(_)) ==
    UNION { { [i \in 1..len |-> [Entry(i) EXCEPT !.alive = i \in up]] :
                up \in SUBSET (1..len) } : len \in 0..n }

\* the state of a tick of the default difficulty before its sweep: pickups
\* told apart by their value, bullets by the hits they have left
InitSweep ==
    /\ state = "Playing"
    /\ difficulty = 1
    /\ selectedDifficulty = difficulty
    /\ player = reset(applyBalance(PlayerNew, getBalanceConfig(difficulty)),
                      getBalanceConfig(difficulty))
    /\ spawner = SpawnerNew
    /\ enemyCount = 0
    /\ pickups \in Arrangements(MaxSwept, LAMBDA i : PickupNew(XP, i))
    /\ bullets \in Arrangements(2, LAMBDA i :
                                [BulletNew(player) EXCEPT !.pierceLeft = i])
    /\ enemyBullets \in Arrangements(1, LAMBDA i :
                                     EnemyBulletNew(getBalanceConfig(difficulty)))
    /\ enemies \in Arrangements(1, LAMBDA i :
                                EnemyNew(Basic, 0, getBalanceConfig(difficulty)))
    /\ menuButtons = MenuRender({}, "StartMenu", 0)
    /\ upgradeChoices = <<>>
    /\ saveData = [bestTime |-> 0, bestKills |-> 0, bestLevel |-> 0]
    /\ gameOvers = 0
    /\ call = NoCall
    /\ deathSignals = 0
    /\ bossLog = NoBossLog
    /\ sinceKill = NoKillYet
    /\ sinceContact = <<>>
    /\ camera = CameraNew
    /\ lastTime = 0

\* Game.updatePlaying lines 435-439, once in a tick
Sw_SweepDead ==
    /\ call.op = "none"
    /\ \E before \in {[bullets |-> bullets, enemyBullets |-> enemyBullets,
                       enemies |-> enemies, pickups |-> pickups]} :
       \E g \in {SweepDead(before)} :
          /\ bullets' = g.bullets
          /\ enemyBullets' = g.enemyBullets
          /\ enemies' = g.enemies
          /\ pickups' = g.pickups
          /\ call' = [op |-> "sweep", ret |-> before]
    /\ UNCHANGED <<state, player, difficulty, spawner, enemyCount, menuAndSave,
                   deathSignals, bossLog, sinceKill, sinceContact, camera, lastTime>>

NextSweep == Sw_SweepDead

SpecSweep == InitSweep /\ [][NextSweep]_vars

\* how many times x is in the list
Count(arr, x) == Cardinality({ i \in DOMAIN arr : arr[i] = x })

\* after holds the alive entries of before, each as often as before held
\* it, and nothing else
ExactlyTheAlive(before, after) ==
    /\ \A i \in DOMAIN after : after[i].alive
    /\ \A i \in DOMAIN before :
          before[i].alive => Count(after, before[i]) = Count(before, before[i])
    /\ \A i \in DOMAIN after : \E j \in DOMAIN before : before[j] = after[i]

\* C30: Game.removeDeadEntities leaves in a list exactly its alive entries,
\* each once, none lost or duplicated, whatever the arrangement of alive and
\* dead entries; so after the sweep of a Playing tick none of the four
\* entity lists holds a not-alive entry
C30_SweepRemovesExactlyTheDead ==
    call.op = "sweep" =>
        /\ ExactlyTheAlive(call.ret.bullets, bullets)
        /\ ExactlyTheAlive(call.ret.enemyBullets, enemyBullets)
        /\ ExactlyTheAlive(call.ret.enemies, enemies)
        /\ ExactlyTheAlive(call.ret.pickups, pickups)

\* a swept list whose last entry and two entries before it were dead, with
\* alive entries between and before them
C30_Witness ==
    /\ call.op = "sweep"
    /\ Len(call.ret.pickups) = MaxSwept
    /\ ~call.ret.pickups[MaxSwept].alive
    /\ ~call.ret.pickups[MaxSwept - 1].alive
    /\ call.ret.pickups[MaxSwept - 2].alive
    /\ ~call.ret.pickups[1].alive
    /\ call.ret.pickups[2].alive
    /\ Len(pickups) < Len(call.ret.pickups)
    /\ Len(pickups) >= 2
    /\ Len(bullets) < Len(call.ret.bullets)


----------------------------------------------------------------------------
(* Directions: the quotients dx / len of Enemy.update, Pickup.update and   *)
(* normalize.  A JavaScript number is a record: nan says it is NaN, v is   *)
(* its value otherwise.  Offsets are whole arena units, lengths are kept   *)
(* in tenths of a unit and quotients in thousandths, rounded down.         *)

RANGED_PREFERRED_DIST == 250

RANGED_RANGE == 500

PICKUP_ATTRACT_SPEED == 300

\* ENEMY_CONFIGS[type].speed
ENEMY_CONFIGS_speed == <<80, 160, 50, 40, 60, 120>>

\* rangedBulletSpeed of the four difficulty configs
RangedBulletSpeed == <<140, 200, 260, 320>>

\* explodeSpeedBoost of the four difficulty configs, in tenths
ExplodeSpeedBoost10 == <<12, 15, 18, 20>>

\* playerPickupRadius of the four difficulty configs
PlayerPickupRadius == <<160, 100, 80, 60>>

Num(v) == [nan |-> FALSE, v |-> v]

NaN == [nan |-> TRUE, v |-> 0]

\* the largest r in lo..hi with r * r <= n
RECURSIVE SqrtIn(_, _, _)
SqrtIn(n, lo, hi) ==
    IF lo >= hi THEN lo
    ELSE Then((lo + hi + 1) \div 2, LAMBDA mid :
         IF mid * mid <= n THEN SqrtIn(n, mid, hi) ELSE SqrtIn(n, lo, mid - 1))

\* Math.sqrt, rounded down
Sqrt(n) == SqrtIn(n, 0, Min(n, 46340))

\* Math.sqrt(dx * dx + dy * dy) in tenths
Len10(dx, dy) == Sqrt((dx * dx + dy * dy) * 100)

\* d / len in thousandths: 0 / 0 is NaN (d is 0 whenever len is)
Quot(d, len10) == IF len10 = 0 THEN NaN ELSE Num((d * 10000) \div len10)

\* the product of a number and a finite factor
Times(q, k) == IF q.nan THEN NaN ELSE Num(q.v * k)

\* normalize of Utils.ts, in thousandths
normalize(x, y) ==
    Then(Len10(x, y), LAMBDA len :
         IF len = 0 THEN [x |-> Num(0), y |-> Num(0)]
         ELSE [x |-> Quot(x, len), y |-> Quot(y, len)])

\* Enemy.update lines 212-266 for an enemy of the given type with the player
\* at the offset (dx, dy) from it, at difficulty d: the velocity of its move
\* (thousandths of a unit per second), its shoot timer and the velocities of
\* the bullets it returns
EnemyUpdateAt(type, dx, dy, shootTimer, dt, d) ==
    LET lenSq == dx * dx + dy * dy
        len   == Len10(dx, dy)
        speed == ENEMY_CONFIGS_speed[type + 1]
        still == [x |-> Num(0), y |-> Num(0)]
        go(k) == [x |-> Times(Quot(dx, len), k), y |-> Times(Quot(dy, len), k)]
        t     == shootTimer - dt
        fires == type = Ranged /\ t <= 0 /\ lenSq < RANGED_RANGE * RANGED_RANGE
    IN  [ vel |-> IF lenSq <= 1 THEN still
                  ELSE IF type = Ranged
                       THEN IF len < (RANGED_PREFERRED_DIST - 30) * 10
                            THEN go(-speed)
                            ELSE IF len > (RANGED_PREFERRED_DIST + 30) * 10
                                 THEN go(speed) ELSE still
                  ELSE IF type = Exploder
                       THEN go(IF len < 1000
                               THEN (speed * ExplodeSpeedBoost10[d + 1]) \div 10
                               ELSE speed)
                  ELSE go(speed),
          shootTimer |-> IF type # Ranged THEN shootTimer
                         ELSE IF fires THEN RangedShootPeriod(getBalanceConfig(d))
                         ELSE t,
          bullets |-> IF fires
                      THEN <<[vx |-> Times(Quot(dx, len), RangedBulletSpeed[d + 1]),
                              vy |-> Times(Quot(dy, len), RangedBulletSpeed[d + 1])]>>
                      ELSE <<>> ]

\* Pickup.update lines 378-387: the velocity of the attraction with the
\* player at the offset (dx, dy) from the pickup
PickupAttract(dx, dy, attractRadius) ==
    LET dSq == dx * dx + dy * dy
        len == Len10(dx, dy)
    IN  IF dSq < attractRadius * attractRadius /\ dSq > 1
        THEN [x |-> Times(Quot(dx, len), PICKUP_ATTRACT_SPEED),
              y |-> Times(Quot(dy, len), PICKUP_ATTRACT_SPEED)]
        ELSE [x |-> Num(0), y |-> Num(0)]

\* Player.update lines 235-256: the direction of the move for the keys held
PlayerMoveDir(dx, dy) ==
    IF dx # 0 \/ dy # 0 THEN normalize(dx, dy)
    ELSE [x |-> Num(0), y |-> Num(0)]

\* offsets of the player from an enemy or a pickup: on it, one unit off,
\* inside and outside the distances the code tests
AimOffsets ==
    { <<0, 0>>, <<1, 0>>, <<0, -1>>, <<1, 1>>, <<3, 4>>, <<-60, 80>>,
      <<0, 99>>, <<-219, 0>>, <<150, 200>>, <<0, 281>>, <<-300, -400>>,
      <<499, 0>>, <<600, 0>> }

InitAim ==
    /\ state = "Playing"
    /\ difficulty \in Difficulties
    /\ player = reset(applyBalance(PlayerNew, getBalanceConfig(difficulty)),
                      getBalanceConfig(difficulty))
    /\ spawner = SpawnerNew
    /\ enemyCount = 0
    /\ InitRest
    /\ call = NoCall
    /\ deathSignals = 0
    /\ bossLog = NoBossLog
    /\ sinceKill = NoKillYet
    /\ sinceContact = <<>>
    /\ camera = CameraNew
    /\ lastTime = 0

aimRest == <<state, player, difficulty, spawner, enemyCount, entityLists,
             menuAndSave, deathSignals, bossLog, sinceKill, sinceContact,
             camera, lastTime>>

\* Game.updatePlaying lines 292-308: Enemy.update of one enemy, its shoot
\* timer running, expiring in this call or expired before it
Aim_EnemyUpdate ==
    /\ call.op = "none"
    /\ \E type \in EnemyTypes, o \in AimOffsets, dt \in DtSet :
       \E timer \in {0, MAX_DT, RangedShootPeriod(Bal)} :
         call' = [op |-> "enemyUpdateAt",
                  ret |-> [type |-> type, dx |-> o[1], dy |-> o[2],
                           got |-> EnemyUpdateAt(type, o[1], o[2], timer, dt,
                                                 difficulty)]]
    /\ UNCHANGED aimRest

\* Game.updatePlaying lines 318-327: Pickup.update of one pickup
Aim_PickupUpdate ==
    /\ call.op = "none"
    /\ \E o \in AimOffsets :
         call' = [op |-> "pickupUpdateAt",
                  ret |-> [dx |-> o[1], dy |-> o[2],
                           got |-> PickupAttract(o[1], o[2],
                                       PlayerPickupRadius[difficulty + 1])]]
    /\ UNCHANGED aimRest

\* Player.update lines 235-256 with any keys held
Aim_PlayerMove ==
    /\ call.op = "none"
    /\ \E dx \in {-1, 0, 1}, dy \in {-1, 0, 1} :
         call' = [op |-> "playerMove",
                  ret |-> [dx |-> dx, dy |-> dy, got |-> PlayerMoveDir(dx, dy)]]
    /\ UNCHANGED aimRest

NextAim == Aim_EnemyUpdate \/ Aim_PickupUpdate \/ Aim_PlayerMove

SpecAim == InitAim /\ [][NextAim]_vars

\* C31: no step divides by a zero length: the move of an enemy, a pickup and
\* the player is a number, and so is the velocity of every bullet an enemy
\* creates, also when a Ranged enemy whose shoot timer has run out is on the
\* player
C31_NoZeroLengthDivision ==
    /\ call.op = "enemyUpdateAt" =>
          /\ ~call.ret.got.vel.x.nan /\ ~call.ret.got.vel.y.nan
          /\ \A i \in DOMAIN call.ret.got.bullets :
                /\ ~call.ret.got.bullets[i].vx.nan
                /\ ~call.ret.got.bullets[i].vy.nan
    /\ call.op \in {"pickupUpdateAt", "playerMove"} =>
          ~call.ret.got.x.nan /\ ~call.ret.got.y.nan


----------------------------------------------------------------------------
(* Runs: their start, their end and the clock that drives them *)

MaxRecord == 2

\* Game constructor line 161: loadSave has found nothing, or the records of
\* an earlier session
InitRecords ==
    /\ state = "Playing"
    /\ difficulty = 1
    /\ player = reset(applyBalance(PlayerNew, getBalanceConfig(difficulty)),
                      getBalanceConfig(difficulty))
    /\ spawner = SpawnerReset(SpawnerNew, getBalanceConfig(difficulty))
    /\ enemyCount = 0
    /\ enemies = <<>>
    /\ bullets = <<>>
    /\ enemyBullets = <<>>
    /\ pickups = <<>>
    /\ menuButtons = MenuRender({}, "StartMenu", 0)
    /\ selectedDifficulty = difficulty
    /\ upgradeChoices = <<>>
    /\ saveData \in { [bestTime |-> 0, bestKills |-> 0, bestLevel |-> 0],
                      [bestTime |-> MAX_DT, bestKills |-> 1, bestLevel |-> 2] }
    /\ gameOvers = 0
    /\ call = NoCall
    /\ deathSignals = 0
    /\ bossLog = NoBossLog
    /\ sinceKill = NoKillYet
    /\ sinceContact = <<>>
    /\ camera = CameraNew
    /\ lastTime = 0

\* the Playing ticks of a run have brought it t further, with k more kills
\* and l more levels
Rec_Play ==
    /\ state = "Playing"
    /\ \E t \in 0..1, k \in 0..1, l \in 0..1 :
         /\ t + k + l > 0
         /\ spawner.elapsedTime + t * MAX_DT <= MaxRecord * MAX_DT
         /\ player.killCount + k <= MaxRecord
         /\ player.level + l <= 1 + MaxRecord
         /\ spawner' = [spawner EXCEPT !.elapsedTime = @ + t * MAX_DT,
                                       !.spawnTimer = @ - t * MAX_DT]
         /\ player' = [player EXCEPT !.killCount = @ + k, !.level = @ + l]
         /\ call' = [op |-> "play", ret |-> FALSE]
    /\ UNCHANGED <<state, difficulty, enemyCount, entityLists, menuAndSave,
                   deathSignals, bossLog, sinceKill, sinceContact, camera, lastTime>>

\* Game.updatePlaying lines 430-433: the player has died and the run ends
Rec_EnterGameOver ==
    /\ state = "Playing"
    /\ \E g \in {enterGameOver([Game EXCEPT !.player.alive = FALSE,
                                            !.player.health = 0])} :
         /\ state' = g.state
         /\ player' = g.player
         /\ saveData' = g.saveData
         /\ gameOvers' = g.gameOvers
         /\ call' = [op |-> "enterGameOver",
                     ret |-> [saved |-> g.out.saved, before |-> saveData]]
    /\ UNCHANGED <<difficulty, spawner, enemyCount, entityLists, menuButtons,
                   selectedDifficulty, upgradeChoices, deathSignals, bossLog,
                   sinceKill, sinceContact, camera, lastTime>>

\* Game.updateMenuInput: restart on the GameOver screen
Rec_Restart ==
    /\ state = "GameOver"
    /\ \E g \in {startNewGame(Game)} :
         /\ state' = g.state
         /\ player' = g.player
         /\ spawner' = g.spawner
         /\ enemies' = g.enemies
         /\ bullets' = g.bullets
         /\ enemyBullets' = g.enemyBullets
         /\ pickups' = g.pickups
         /\ gameOvers' = g.gameOvers
         /\ deathSignals' = g.deathSignals
         /\ call' = [op |-> "startNewGame", ret |-> FALSE]
    /\ UNCHANGED <<difficulty, enemyCount, menuButtons, selectedDifficulty,
                   upgradeChoices, saveData, bossLog, sinceKill, sinceContact,
                   camera, lastTime>>

NextRecords == Rec_Play \/ Rec_EnterGameOver \/ Rec_Restart

SpecRecords == InitRecords /\ [][NextRecords]_vars

\* C33: Game.enterGameOver makes each best record the maximum of what it
\* was and the run's value (elapsed time, kills, level) and calls
\* persistSave exactly if one of them rose; no step lowers a record
C33_RecordsOnlyImprove ==
    [][/\ saveData'.bestTime >= saveData.bestTime
       /\ saveData'.bestKills >= saveData.bestKills
       /\ saveData'.bestLevel >= saveData.bestLevel
       /\ call'.op = "enterGameOver" =>
            /\ saveData'.bestTime = Max(saveData.bestTime, spawner.elapsedTime)
            /\ saveData'.bestKills = Max(saveData.bestKills, player.killCount)
            /\ saveData'.bestLevel = Max(saveData.bestLevel, player.level)
            /\ call'.ret.saved <=>
                 \/ spawner.elapsedTime > saveData.bestTime
                 \/ player.killCount > saveData.bestKills
                 \/ player.level > saveData.bestLevel
       /\ call'.op # "enterGameOver" => saveData' = saveData
    ]_vars

\* a later run that ends below one record, level with another and above the
\* third: the save is written
C33_Witness ==
    /\ call.op = "enterGameOver"
    /\ call.ret.saved
    /\ call.ret.before.bestTime > spawner.elapsedTime
    /\ call.ret.before.bestLevel = player.level
    /\ call.ret.before.bestKills < player.killCount
    /\ saveData.bestTime = call.ret.before.bestTime

----------------------------------------------------------------------------
(* The clock: Game.loop turns the timestamps of requestAnimationFrame      *)
(* into the delta of each update.  Timestamps are in the unit of Ms, as    *)
(* every time of the model.                                                *)

\* a delta that is not floored at zero
loopDt_NotFloored(timestamp, last) ==
    IF timestamp - last > MAX_DT THEN MAX_DT ELSE timestamp - last

\* Game.loop lines 184-190: the delta between two timestamps, capped at
\* MAX_DT and then floored at zero
loopDt(timestamp, last) ==
    LET dt == timestamp - last
        capped == IF dt > MAX_DT THEN MAX_DT ELSE dt
    IN  IF capped < 0 THEN 0 ELSE capped

\* timestamps are the multiples of half of MAX_DT up to this one, ...
MaxStamp == 3

\* ... and one far ahead of them, this many multiples
FarAhead == 1000

Timestamps ==
    { (k * MAX_DT) \div 2 : k \in 0..MaxStamp } \cup { (FarAhead * MAX_DT) \div 2 }

\* the clock is followed for this many MAX_DT of a run
MaxClockTicks == 4

\* the Game after construction, its loop started (Game.start) at any
\* timestamp
InitClock ==
    /\ enemyCount = 0
    /\ bossLog = NoBossLog
    /\ sinceKill = NoKillYet
    /\ sinceContact = <<>>
    /\ camera = CameraNew
    /\ call = NoCall
    /\ deathSignals = 0
    /\ gameOvers = 0
    /\ upgradeChoices = <<>>
    /\ saveData = [bestTime |-> 0, bestKills |-> 0, bestLevel |-> 0]
    /\ state = "StartMenu"
    /\ difficulty = 1
    /\ selectedDifficulty = 1
    /\ player = applyBalance(PlayerNew, getBalanceConfig(1))
    /\ spawner = SpawnerNew
    /\ enemies = <<>> /\ bullets = <<>>
    /\ enemyBullets = <<>> /\ pickups = <<>>
    /\ menuButtons = {}
    /\ lastTime \in Timestamps

\* Game.loop called with a timestamp: any timestamp, before or after the
\* last one.  While playing, the player neither dashes nor fires, and the
\* enemies that the spawner creates are of any type it may choose; in a
\* menu, any button region may be clicked.
Clock_Loop ==
    \E timestamp \in Timestamps, focusLost \in BOOLEAN, esc \in BOOLEAN :
    \E dt \in {loopDt(timestamp, lastTime)} :
       LET bal == getBalanceConfig(difficulty)
           base == [NoInput EXCEPT !.focusLost = focusLost, !.esc = esc,
                                   !.dt = dt]
       IN  /\ lastTime' = timestamp
           /\ IF state = "Playing"
              THEN /\ spawner.elapsedTime + dt <= MaxClockTicks * MAX_DT
                   /\ \E sp \in {SpawnerUpdate(spawner, dt, Len(enemies), bal)} :
                      \E ty \in [1..sp.regular -> chooseEnemyType(sp.s, bal)] :
                         UpdateAndRender([base EXCEPT !.types = ty])
              ELSE \E c \in menuButtons \cup {"none"} :
                      UpdateAndRender([base EXCEPT !.click = c])

NextClock == Clock_Loop

SpecClock == InitClock /\ [][NextClock]_vars

\* C34: for every pair of consecutive timestamps, far ahead or backwards
\* included, the delta of the update is within [0, MAX_DT]; a frame that
\* plays advances the spawner's elapsed time by exactly that delta, and
\* within a run no frame decreases the elapsed time or advances it by more
\* than MAX_DT
C34_DeltaWithinBounds ==
    [][call'.op = "frame" =>
         \E dt \in {loopDt(lastTime', lastTime)} :
            /\ dt >= 0
            /\ dt <= MAX_DT
            /\ call'.ret.played =>
                  spawner'.elapsedTime = spawner.elapsedTime + dt
            /\ ~call'.ret.started =>
                  /\ spawner'.elapsedTime >= spawner.elapsedTime
                  /\ spawner'.elapsedTime <= spawner.elapsedTime + MAX_DT
    ]_vars

\* a frame has played a tick of a run that had already advanced, at a
\* timestamp before the one of the frame that preceded it
C34_Witness ==
    /\ call.op = "frame"
    /\ call.ret.played
    /\ state = "Playing"
    /\ spawner.elapsedTime > MAX_DT
    /\ lastTime = 0

----------------------------------------------------------------------------
(* Menu actions and the screens that offer them                            *)

\* C35 (as claimed): a menu action takes effect only in a frame that begins
\* in the state whose screen offers it: a new run is started (start,
\* restart) only from StartMenu, Paused or GameOver, HowToPlay is opened and
\* the difficulty selected only from StartMenu, and StartMenu is entered
\* (back, quit) only from HowToPlay, Paused or GameOver; a frame that begins
\* in Playing does none of these, with or without a focus loss
C35_ActionsOnlyOnTheirScreen ==
    [][call'.op = "frame" =>
         /\ call'.ret.started => state \in {"StartMenu", "Paused", "GameOver"}
         /\ (state' = "HowToPlay" /\ state # "HowToPlay") => state = "StartMenu"
         /\ selectedDifficulty' # selectedDifficulty => state = "StartMenu"
         /\ (state' = "StartMenu" /\ state # "StartMenu") =>
               state \in {"HowToPlay", "Paused", "GameOver"}
    ]_vars

----------------------------------------------------------------------------
(* Upgrade levels                                                          *)

\* the upgrades whose level differs between the players p and q
Upgraded(p, q) ==
    { id \in UpgradeIds : q.upgradeLevels[id] # p.upgradeLevels[id] }

\* C36: in every state each upgrade level of the player is between 0 and
\* the upgrade's maxLevel; a frame changes upgrade levels only by starting
\* a new run (all to 0) or, beginning in LevelUp, by raising exactly one
\* level by one, that of an upgrade that was below its maxLevel, and then
\* it leaves LevelUp
C36_UpgradeLevelsWithinMax ==
    /\ [](\A id \in UpgradeIds :
             /\ player.upgradeLevels[id] >= 0
             /\ player.upgradeLevels[id] <= maxLevel(id))
    /\ [][(call'.op = "frame" /\ Upgraded(player, player') # {}) =>
            \/ call'.ret.started
            \/ /\ state = "LevelUp"
               /\ state' = "Playing"
               /\ \E id \in UpgradeIds :
                     /\ Upgraded(player, player') = {id}
                     /\ player.upgradeLevels[id] < maxLevel(id)
                     /\ player'.upgradeLevels[id] = player.upgradeLevels[id] + 1
         ]_vars

\* an upgrade has just been selected while another one is at its maximum
C36_Witness ==
    /\ call.op = "frame"
    /\ call.ret.from = "LevelUp"
    /\ state = "Playing"
    /\ \E id \in UpgradeIds : player.upgradeLevels[id] = 1
    /\ \E id \in UpgradeIds : player.upgradeLevels[id] = maxLevel(id)

----------------------------------------------------------------------------
(* Kills and hits of one Collision.checkAll call                           *)

\* the members of a sequence
Members(seq) == { seq[i] : i \in DOMAIN seq }

\* C37: enemiesKilled of a checkAll call contains no enemy twice, whatever
\* number of bullets overlap it; it holds exactly the enemies that were
\* alive before the call and are not after it; an enemy that was not alive
\* is neither damaged nor recorded; and the player's kill count grows by the
\* number of distinct enemies killed
C37_KilledAtMostOnce ==
    [][call'.op = "checkAll" =>
         \E killed \in {call'.ret.enemiesKilled} :
            /\ \A i, j \in DOMAIN killed : i # j => killed[i] # killed[j]
            /\ Members(killed) =
                  { e \in DOMAIN enemies : enemies[e].alive /\ ~enemies'[e].alive }
            /\ \A e \in DOMAIN enemies :
                  ~enemies[e].alive => enemies'[e] = enemies[e]
            /\ player'.killCount = player.killCount + Cardinality(Members(killed))
    ]_vars

\* two bullets overlapped an enemy that the call killed, next to an enemy
\* killed by an earlier call
C37_Witness ==
    /\ call.op = "checkAll"
    /\ \E b1, b2 \in DOMAIN call.ret.bulletHits :
       \E e \in Members(call.ret.enemiesKilled) :
          /\ b1 # b2
          /\ e \in Members(call.ret.bulletHits[b1])
          /\ e \in Members(call.ret.bulletHits[b2])
    /\ \E e \in DOMAIN enemies :
          ~enemies[e].alive /\ e \notin Members(call.ret.enemiesKilled)

----------------------------------------------------------------------------
(* Hits on the player: the ticks of a run in which enemy bullets, enemies  *)
(* and the blasts of dying Exploders reach a player who is vulnerable or   *)
(* not.  Each tick is Player.update followed by Collision.checkAll.        *)

\* a fresh player, or one hit a moment ago, with an Exploder that one more
\* bullet kills, a Basic enemy, a bullet of the player in flight and two
\* enemy bullets
HitRuns(bal) ==
    LET fresh == reset(applyBalance(PlayerNew, bal), bal)
    IN  { [ player |-> p,
            enemies |-> << HitsLeft(EnemyNew(Exploder, bal.initialSpawnDelay, bal),
                                    1, fresh.damage1000),
                           EnemyNew(Basic, bal.initialSpawnDelay, bal) >>,
            bullets |-> <<BulletNew(fresh)>>,
            enemyBullets |-> <<EnemyBulletNew(bal), EnemyBulletNew(bal)>> ] :
          p \in {fresh, takeDamage(fresh, 1, bal).p} }

InitHits ==
    /\ state = "Playing"
    /\ difficulty \in Difficulties
    /\ selectedDifficulty = difficulty
    /\ spawner = SpawnerMidRun
    /\ enemyCount = 0
    /\ bossLog = NoBossLog
    /\ sinceKill = NoKillYet
    /\ sinceContact = <<>>
    /\ camera = CameraNew
    /\ lastTime = 0
    /\ \E run \in HitRuns(getBalanceConfig(difficulty)) :
          /\ player = run.player
          /\ enemies = run.enemies
          /\ bullets = run.bullets
          /\ enemyBullets = run.enemyBullets
    /\ pickups = <<>>
    /\ menuButtons = MenuRender({}, "StartMenu", 0)
    /\ upgradeChoices = <<>>
    /\ saveData = [bestTime |-> 0, bestKills |-> 0, bestLevel |-> 0]
    /\ gameOvers = 0
    /\ call = NoCall
    /\ deathSignals = 0

\* Game.updatePlaying lines 277-290: Player.update of a tick of the longest
\* frame time, the player neither dashing nor firing
H_PlayerUpdate ==
    /\ player.alive
    /\ call.op # "update"
    /\ player' = PlayerUpdate(player, MAX_DT, [dash |-> FALSE, shoot |-> FALSE]).p
    /\ call' = [op |-> "update", ret |-> FALSE]
    /\ UNCHANGED <<state, difficulty, spawner, enemyCount, entityLists,
                   menuAndSave, deathSignals, bossLog, sinceKill, sinceContact,
                   camera, lastTime>>

\* Game.updatePlaying line 346: Collision.checkAll of the tick, for any
\* overlaps of the living entities; call.ret keeps the overlaps and the
\* result's playerHit
H_CheckAll ==
    /\ player.alive
    /\ call.op # "checkAll"
    /\ \E E \in {{ e \in DOMAIN enemies : enemies[e].alive }} :
       \E bh \in [DOMAIN bullets -> SeqsNoDup(E)],
          eb \in SUBSET (DOMAIN enemyBullets),
          c \in SeqsNoDup(E),
          bl \in SUBSET { e \in E : enemies[e].type = Exploder } :
         /\ \A b \in DOMAIN bh : ~bullets[b].alive => bh[b] = <<>>
         /\ \A b \in eb : enemyBullets[b].alive
         /\ \A i \in DOMAIN c : enemies[c[i]].type = Exploder => c[i] \in bl
         /\ \E ov \in {[bulletHits |-> bh, enemyBulletHits |-> eb,
                         contacts |-> c, blasts |-> bl, pickupHits |-> {}]} :
            \E st \in {checkAll(player, enemies, bullets, enemyBullets,
                                pickups, ov, Bal)} :
               /\ player' = st.player
               /\ enemies' = st.enemies
               /\ bullets' = st.bullets
               /\ enemyBullets' = st.enemyBullets
               /\ pickups' = st.pickups
               /\ deathSignals' = deathSignals + st.deaths
               /\ call' = [op |-> "checkAll",
                           ret |-> [enemyBulletHits |-> eb, contacts |-> c,
                                    blasts |-> bl,
                                    exploderDeaths |-> st.exploderDeaths,
                                    playerHit |-> st.playerHit]]
    /\ UNCHANGED <<state, difficulty, spawner, enemyCount, menuAndSave,
                   bossLog, sinceKill, sinceContact, camera, lastTime>>

NextHits == H_PlayerUpdate \/ H_CheckAll

SpecHits == InitHits /\ [][NextHits]_vars

\* C38 (as claimed): the playerHit flag of a checkAll call is true only if
\* the player's health decreased in the call
C38_PlayerHitMeansDamage ==
    [][(call'.op = "checkAll" /\ call'.ret.playerHit) =>
          player'.health < player.health]_vars

\* the damage of each source that reaches the player in the checkAll call
\* of a step: the enemy bullets, the enemies in contact, and the Exploders
\* that died in the call with the player in their blast
SourceDamages ==
    { enemyBullets[b].damage : b \in call'.ret.enemyBulletHits }
    \cup { EnemyDamage(Bal, enemies[e].type) : e \in Members(call'.ret.contacts) }
    \cup { EnemyDamage(Bal, Exploder) :
             e \in Members(call'.ret.exploderDeaths) \cap call'.ret.blasts }

\* C39: a checkAll call reduces the player's health by the damage of at
\* most one source, whatever number of enemy bullets, enemies and exploder
\* deaths overlap the player: the health is unchanged, or it drops by the
\* damage of one of the sources (to 0 at most) and the player leaves the
\* call invulnerable for playerInvulnDuration; a player hit a moment ago
\* loses nothing
C39_OneDamageSourcePerTick ==
    [][call'.op = "checkAll" =>
         \E drop \in {player.health - player'.health} :
            /\ \/ drop = 0
               \/ \E d \in SourceDamages : drop = Min(d, player.health)
            /\ drop > 0 =>
                  /\ ~player.isInvuln
                  /\ player'.isInvuln
                  /\ player'.invulnTimer = Bal.playerInvulnDuration
            /\ player.isInvuln => drop = 0
    ]_vars

\* two enemy bullets, an enemy in contact and the blast of an Exploder
\* killed in the call have reached a player who lost the damage of one
\* enemy bullet and lives
C39_Witness ==
    /\ call.op = "checkAll"
    /\ Cardinality(call.ret.enemyBulletHits) = 2
    /\ call.ret.contacts # <<>>
    /\ Members(call.ret.exploderDeaths) \cap call.ret.blasts # {}
    /\ player.alive
    /\ player.isInvuln
    /\ player.health = player.maxHealth - EnemyDamage(Bal, Ranged)

----------------------------------------------------------------------------
(* The invulnerability window                                              *)

\* C40 (as claimed): a running invulnerability window shrinks only through
\* elapsed time: no Player.update call, whatever its inputs, leaves less of
\* it than it had minus the longest frame time, so that the window that an
\* effective takeDamage opens lasts playerInvulnDuration
C40_InvulnOnlyShrinksByTime ==
    [][(call'.op = "update" /\ player.invulnTimer > 0) =>
         player'.invulnTimer >= player.invulnTimer - MAX_DT]_vars

====
